---- MODULE Spec2Model ----
(***************************************************************************)
(* A model of the feed aggregator's crawl: the request persistence         *)
(* downloader middleware (aggregator/middlewares.py), the pagination state *)
(* machine of FeedlyRSSSpider (aggregator/spiders/base.py), the rate-limit *)
(* handling of HTTPErrorDownloaderMiddleware and the depth accounting of   *)
(* ConditionalDepthSpiderMiddleware.                                       *)
(*                                                                         *)
(* The host engine is a boundary: a request yielded by a callback is       *)
(* scheduled at once (which fires request_scheduled, hence eager_process), *)
(* waits in the scheduler, and is dispatched later through the downloader  *)
(* middleware; its response waits for its callback.                        *)
(*                                                                         *)
(* Spec        the crawl; every archive() call is one step.                *)
(* SpecThreads the thread and _close, archive() taken step by step.        *)
(* SpecRate    HTTPErrorDownloaderMiddleware.process_response.             *)
(* SpecDepth   ConditionalDepthSpiderMiddleware.process_spider_output.     *)
(* SpecOutput  parse_feed and the two spider middlewares for records       *)
(*             (SpecOutputFair: every result and request is handled).      *)
(* SpecSelect  FeedlyRSSSpider.filter_feeds.                               *)
(* SpecCli     the commands collect-urls and export.                       *)
(* SpecFilter  RequestFilterDownloaderMiddleware.process_request.           *)
(* SpecProbe   FeedProbingDownloaderMiddleware.process_request.             *)
(* SpecArgs    _config_logging (aggregator/__init__.py).                    *)
(* SpecPass    FetchSourceSpiderMiddleware.process_spider_output alone.     *)
(* SpecDispatch the dispatch of one request through the request filter and *)
(*             the authorization middleware (SpecDispatchFair: a scheduled *)
(*             request is dispatched).                                     *)
(***************************************************************************)
EXTENDS Integers, Sequences, FiniteSets, TLC

\* ------------------------------------------------------------------ bounds
\* Continuation tokens handed out by the upstream are 1..MaxPages.
MaxPages == 2
\* The longest run of answers typed at one resume prompt.
MaxPrompts == 2
\* How many times the spider_closed signal is delivered.
MaxCloseSignals == 2
\* The event loop enqueues nothing more once this many instructions wait for
\* a flush.
MaxQueue == 4
\* The continuation tokens of the page requests an earlier run left archived.
OldConts == {0, 1}

\* Feed URLs the upstream knows (in one fixed order, used wherever the code
\* walks a dict), and the values FEED is configured with.
FeedOrder == <<"f1", "f2">>
Feeds == {FeedOrder[i] : i \in 1..Len(FeedOrder)}
Queries == {"qa", "qb"}
Configured == {"qa"}
\* Responses the HTTP error middleware is given in one run.
MaxResponses == 2
\* Outputs of one spider callback, the largest inc_depth tag, the passes of
\* one batch through the depth middleware, the largest depth a response has.
MaxOut == 2
MaxTag == 3
MaxPasses == 3
MaxRespDepth == 2
\* Instructions in the queue while the threads are followed step by step.
MaxPending == 2

VARIABLES
  cfgFeed,       \* spider.config['FEED']
  engine,        \* "idle" | "running" | "closed"
  sched,         \* requests scheduled and not yet dispatched
  resp,          \* responses waiting for their callback
  initialized,   \* RequestPersistenceDownloaderMiddleware.initialized
  feed,          \* self.feed ("None" before init)
  instructions,  \* self.instructions
  closing,       \* self.closing (the Event's flag)
  workerPc,      \* the thread: "unstarted" | "wait" | "done"
  archiveFile,   \* requests.pickle.gz: persistence key -> payload
  infoFile,      \* info.json: the crawling feed, or "missing"
  prompting,     \* the frame of _continue while it blocks in input()
  dec,           \* history: the last resume decision
  exited,        \* history: exit was chosen at a resume prompt
  afterExit,     \* history: requests scheduled after that
  lastSched,     \* history: per feed, the page request scheduled last
  finished,      \* history: feeds for which next_page returned a FinishedRequest
  upCont,        \* history: per feed, the continuation the upstream returned last (-1: none yet)
  flushedSince,  \* history: a flush ran after the last resume decision
  flushCase,     \* history: the kinds of queue a flush has consumed
  closeSignals,  \* history: spider_closed signals delivered
  closeRuns,     \* history: executions of the body of _close
  rlPending,     \* HTTP error middleware: the exchange process_response is about to get
  rlHandled,     \* history: the exchange process_response got last
  rlResult,      \* what process_response did with it
  rlCount,       \* responses handled
  dMaxdepth,     \* depth middleware: self.maxdepth
  dConfig,       \* spider.config DEPTH_LIMIT
  dStage,        \* "idle" | "pending": a spider result waits for process_spider_output
  dResp,         \* response.meta depth of the callback that produced the result
  dBatch,        \* the spider result
  dIn,           \* history: the result process_spider_output got last
  dOut,          \* what it returned
  dSuper,        \* history: what it handed to the stock depth check
  dTrail,        \* history: per output, its first tag, its passes, its ceiling checks
  dCalls,        \* calls of process_spider_output
  writers,       \* threads that have requests.pickle.gz open for writing
  wArch,         \* the local `archive` of archive() in the thread
  wLast,         \* the thread has left its loop
  mPc,           \* the event-loop thread: "loop", or its position in _close
  mArch,         \* the local `archive` of archive() called by _close
  expected,      \* history: the archive with every instruction enqueued applied
  oScrape,       \* spider.config SCRAPE_SOURCE_PAGE
  oFile,         \* crawled_items.txt: whether it exists, and its lines
  crawled,       \* CrawledItemSpiderMiddleware: initialized, crawled_items
  fetchsrc,      \* FetchSourceSpiderMiddleware: initialized, scrape_source
  oStage,        \* "idle" | "spider" | "crawled": where the result in flight is
  oBatch,        \* the result in flight
  oNextId,       \* the next output a callback creates
  oPending,      \* source requests the engine has not answered
  oIntercepted,  \* history: records replaced by a source request
  oDelivered,    \* history: per record, how often it left the middlewares
  oLast,         \* history: per record, what left the middlewares last
  ciIn,          \* history: the result CrawledItemSpiderMiddleware got last
  ciOut,         \* what it returned
  ciCalled,      \* its process_spider_output has been called
  pf,            \* history: the last call of parse_feed
  selMode,       \* spider.config FEED_STATE_SELECT
  selMeta,       \* filter_feeds: meta['reason']
  selFeeds,      \* filter_feeds: feeds, feed -> liveness
  selOut,        \* what filter_feeds yielded
  selCalled,     \* filter_feeds has run
  cuStore,       \* collect-urls: the resources of the crawl data, url -> occurrences
  cuInclude,     \* its --include filters, each a list of topic=value criteria
  cuExclude,     \* its --exclude filters
  cuOut,         \* the URLs it printed
  cuRan,         \* it has run
  exArgs,        \* export: the topic, whether --help and --input were given
  exRes,         \* what export printed, its exit status, the exporter it invoked
  rfArgs,        \* request filter: the request and the tests of one dispatch
  rfRes,         \* what process_request did with it
  pbArgs,        \* feed probing: the ProbeRequest, the config, what the downloads return
  pbRes,         \* what process_request did and the response it returned
  lgArgs,        \* logging bootstrap: sys.argv and the caller
  lgRes,         \* sys.argv after _config_logging
  fsArgs,        \* source-page fetch middleware: the result handed to it
  fsRes,         \* what process_spider_output yielded
  dq             \* one request on its way through the downloader middlewares

vars == <<cfgFeed, engine, sched, resp, initialized, feed, instructions, closing,
          workerPc, archiveFile, infoFile, prompting, dec, exited, afterExit,
          lastSched, finished, upCont, flushedSince, flushCase,
          closeSignals, closeRuns,
          rlPending, rlHandled, rlResult, rlCount,
          dMaxdepth, dConfig, dStage, dResp, dBatch, dIn, dOut, dSuper, dTrail, dCalls,
          writers, wArch, wLast, mPc, mArch, expected,
          oScrape, oFile, crawled, fetchsrc, oStage, oBatch, oNextId, oPending,
          oIntercepted, oDelivered, oLast, ciIn, ciOut, ciCalled, pf,
          selMode, selMeta, selFeeds, selOut, selCalled,
          cuStore, cuInclude, cuExclude, cuOut, cuRan, exArgs, exRes,
          rfArgs, rfRes, pbArgs, pbRes, lgArgs, lgRes, fsArgs, fsRes, dq>>

rateVars == <<rlPending, rlHandled, rlResult, rlCount>>

depthVars == <<dMaxdepth, dConfig, dStage, dResp, dBatch, dIn, dOut, dSuper, dTrail, dCalls>>

\* The variables of what is modelled on its own.
stepVars == <<writers, wArch, wLast, mPc, mArch, expected>>

outVars == <<oScrape, oFile, crawled, fetchsrc, oStage, oBatch, oNextId, oPending,
            oIntercepted, oDelivered, oLast, ciIn, ciOut, ciCalled, pf>>

selVars == <<selMode, selMeta, selFeeds, selOut, selCalled>>

cliVars == <<cuStore, cuInclude, cuExclude, cuOut, cuRan, exArgs, exRes>>

filtVars == <<rfArgs, rfRes>>

probeVars == <<pbArgs, pbRes>>

argVars == <<lgArgs, lgRes>>

passVars == <<fsArgs, fsRes>>

dispVars == <<dq>>

laterVars == <<filtVars, probeVars, argVars, passVars, dispVars>>

unitVars == <<outVars, selVars, cliVars, laterVars>>

aside == <<rateVars, depthVars, stepVars, unitVars>>

\* ---------------------------------------------------------------- requests
NoKey == "nokey"

Meta(persist, pkey, reason) ==
  [persist |-> persist, pkey |-> pkey, reason |-> reason, depth |-> 0]

\* The meta resume_crawl gives the probe of the configured feed.
ProbeMeta == [Meta("none", NoKey, "user_specified") EXCEPT !.depth = 1]

Url(ep, f, cont) == [ep |-> ep, feed |-> f, cont |-> cont]

Req(cls, url, cb, meta) == [cls |-> cls, url |-> url, cb |-> cb, meta |-> meta]

NoRequest == Req("None", Url("none", "", 0), "none", Meta("none", NoKey, "none"))

\* A stream id is the feed URL behind the STREAM_ID_PREFIX.
StreamId(u) == <<"feed/", u>>

get_feed_uri(id) == id[2]

get_streams_url(id, cont) == Url("streams", id[2], cont)

ResumeRequest(cb) == Req("ResumeRequest", Url("resume", "", 0), cb, Meta("release", NoKey, "none"))

FinishedRequest(meta) == Req("FinishedRequest", Url("httpbin204", "", 0), "none", meta)

ProbeRequest(query, cb, meta) == Req("ProbeRequest", Url("probe", query, 0), cb, meta)

probe_feed(query, meta) == ProbeRequest(query, "start_feeds", meta)

\* ------------------------------------------------------------- persistence
NoneData == [req |-> NoRequest, time |-> 0]

\* _time_pickled: 0 for what an earlier run pickled, 1 for this run.
Now == 1

Instr(action, key, data) == [action |-> action, key |-> key, data |-> data]

_add_request(request) == <<Instr("add", request.meta.pkey, [req |-> request, time |-> Now])>>

\* _remove_request that forgets to enqueue the instruction.
_remove_request_forgotten(request) == <<>>

\* _remove_request: nothing without a pkey.
_remove_request(request) ==
  IF request.meta.pkey = NoKey THEN <<>> ELSE <<Instr("remove", request.meta.pkey, NoneData)>>

\* The loop body of archive() with an add that keeps an entry already there.
ApplyOne_keep_first(archive, ins) ==
  IF ins.action = "add"
    THEN [k \in DOMAIN archive \cup {ins.key} |->
            IF k \in DOMAIN archive THEN archive[k] ELSE ins.data]
  ELSE IF ins.action = "remove"
    THEN [k \in DOMAIN archive \ {ins.key} |-> archive[k]]
  ELSE archive

\* One pass of the loop body of archive() over an archive held in memory.
ApplyOne(archive, ins) ==
  IF ins.action = "add"
    THEN [k \in DOMAIN archive \cup {ins.key} |-> IF k = ins.key THEN ins.data ELSE archive[k]]
  ELSE IF ins.action = "remove"
    THEN [k \in DOMAIN archive \ {ins.key} |-> archive[k]]
  ELSE archive

RECURSIVE ApplyAll(_, _)
ApplyAll(archive, ins) ==
  IF ins = <<>> THEN archive ELSE ApplyAll(ApplyOne(archive, Head(ins)), Tail(ins))

load_archive == archiveFile

load_info == IF infoFile = "missing" THEN "" ELSE infoFile

\* ----------------------------------------------- the persistence middleware
EmptyArchive == [k \in {} |-> NoneData]

OrderOf(S) == SelectSeq(FeedOrder, LAMBDA f : f \in S)

\* init(): the value of self.feed and of the thread once process_request has
\* passed its "if not self.initialized" check.
init_feed == IF initialized THEN feed ELSE cfgFeed

init_thread == IF initialized THEN workerPc ELSE "wait"

\* process_request, without the resume decision: what it returns or raises
\* (out), the instructions it enqueues (ins) and the request as it leaves.
process_request(request, idempotent) ==
  LET action == request.meta.persist
  IN IF action = "none"
       THEN [out |-> IF request.url.ep = "httpbin204" THEN "ValueError" ELSE "pass",
             ins |-> <<>>, request |-> request]
     ELSE IF action = "release" /\ ~idempotent
       THEN [out |-> "_continue", ins |-> <<>>, request |-> request]
     ELSE IF action = "add"
       THEN [out |-> "pass", ins |-> _add_request(request),
             request |-> IF idempotent THEN request
                         ELSE [request EXCEPT !.meta.persist = "none"]]
     ELSE IF action = "remove"
       THEN [out |-> "IgnoreRequest", ins |-> _remove_request(request), request |-> request]
     ELSE [out |-> "pass", ins |-> <<>>, request |-> request]

\* eager_process, connected to request_scheduled: the instructions it enqueues.
eager_process(request) == process_request(request, TRUE).ins

RECURSIVE EagerAll(_)
EagerAll(out) ==
  IF out = <<>> THEN <<>> ELSE eager_process(Head(out)) \o EagerAll(Tail(out))

process_exception_converts_all(request, exception) ==
  IF exception = "IgnoreRequest" THEN <<FinishedRequest(request.meta)>> ELSE <<>>

\* process_exception: the requests it returns to the engine.
process_exception(request, exception) ==
  IF request.cls = "FinishedRequest" THEN <<>>
  ELSE IF exception = "IgnoreRequest" THEN <<FinishedRequest(request.meta)>>
  ELSE <<>>

\* The engine schedules the requests `out` in order: each fires
\* request_scheduled before it is queued.
LastPage(out, f, old) ==
  LET idx == {i \in 1..Len(out) : out[i].cls = "Request" /\ out[i].meta.pkey = f}
  IN IF idx = {} THEN old ELSE out[CHOOSE i \in idx : \A j \in idx : j <= i]

ScheduleAll(out, sc, ins, ex) ==
  /\ sched' = sc \cup {out[i] : i \in 1..Len(out)}
  /\ instructions' = ins \o EagerAll(out)
  /\ lastSched' = [f \in Feeds |-> LastPage(out, f, lastSched[f])]
  /\ afterExit' = (afterExit \/ (ex /\ out # <<>>))

\* What a queue about to be flushed holds: "dup" when one key is added twice
\* with different payloads, "absent" when a key is removed that is not there.
QueueCases(file, ins) ==
  {c \in {"dup"} : \E i, j \in 1..Len(ins) :
       /\ i < j /\ ins[i].action = "add" /\ ins[j].action = "add"
       /\ ins[i].key = ins[j].key /\ ins[i].data # ins[j].data}
  \cup
  {c \in {"absent"} : \E i \in 1..Len(ins) :
       /\ ins[i].action = "remove"
       /\ ins[i].key \notin DOMAIN ApplyAll(file, SubSeq(ins, 1, i - 1))}

\* archive(): one flush.
archive ==
  /\ archiveFile' = ApplyAll(load_archive, instructions)
  /\ instructions' = <<>>
  /\ infoFile' = feed
  /\ flushedSince' = TRUE
  /\ flushCase' = flushCase \cup QueueCases(archiveFile, instructions)

\* --------------------------------------------------------------- the spider
NoMeta == Meta("absent", NoKey, "absent")

\* next_page that keeps the add tag on the FinishedRequest it returns.
next_page_keeps_add(data, request, initial, kwmeta) ==
  LET meta0 == IF request # NoRequest THEN request.meta ELSE Meta("none", NoKey, "none")
      meta1 == IF kwmeta = NoMeta THEN meta0 ELSE kwmeta
      feed_url == data.id[2]
      meta2 == [meta1 EXCEPT !.pkey = feed_url, !.persist = "add"]
      cont == data.continuation
      meta3 == IF cont # 0 THEN [meta2 EXCEPT !.reason = "continuation"] ELSE meta2
      url == Url("streams", data.id[2], cont)
  IN IF cont = 0 /\ ~initial
       THEN Req("FinishedRequest", Url("httpbin204", "", 0), "none", meta2)
     ELSE IF request # NoRequest
       THEN [request EXCEPT !.url = url, !.meta = meta3]
     ELSE Req("Request", url, "parse_feed", meta3)

\* next_page(data, response, initial, meta=...): `request` is response.request,
\* NoRequest when no response is given.
next_page(data, request, initial, kwmeta) ==
  LET meta0 == IF request # NoRequest THEN request.meta ELSE Meta("none", NoKey, "none")
      meta1 == IF kwmeta = NoMeta THEN meta0 ELSE kwmeta
      feed_url == get_feed_uri(data.id)
      meta2 == [meta1 EXCEPT !.pkey = feed_url, !.persist = "add"]
      cont == data.continuation
      meta3 == IF cont # 0 THEN [meta2 EXCEPT !.reason = "continuation"] ELSE meta2
      url == get_streams_url(data.id, cont)
  IN IF cont = 0 /\ ~initial
       THEN FinishedRequest([meta2 EXCEPT !.persist = "remove"])
     ELSE IF request # NoRequest
       THEN [request EXCEPT !.url = url, !.meta = meta3]
     ELSE Req("Request", url, "parse_feed", meta3)

\* reconstruct_request(cls, spider, **kwargs) on an archived payload.
reconstruct_request(data) == Req(data.req.cls, data.req.url, data.req.cb, data.req.meta)

Response(request, requests, valid, cont) ==
  [req |-> request, requests |-> requests, valid |-> valid, cont |-> cont]

\* ------------------------------------------------------------- the prompt
NoFrame == [active |-> FALSE, request |-> NoRequest, sc |-> {}, requests |-> EmptyArchive,
            feed |-> "", resume_feed |-> "", inputs |-> <<>>]

\* The first character of a line typed at the prompt; "n" is any other one.
Answers == {"c", "s", "e", "", "n"}

\* The input loop's test without the empty answer.
InCse_no_default(a) == a \in {"c", "s", "e"}

\* Python's `a in 'cse'` for a string of at most one character.
InCse(a) == a = "" \/ a \in {"c", "s", "e"}

\* The start branch removing only the first archived key.
RemoveAll_first_only(requests) ==
  LET ks == OrderOf(DOMAIN requests)
  IN [i \in 1..(IF ks = <<>> THEN 0 ELSE 1) |-> Instr("remove", ks[i], NoneData)]

\* The start branch of _continue: a remove for every key loaded.
RemoveAll(requests) ==
  LET ks == OrderOf(DOMAIN requests)
  IN [i \in 1..Len(ks) |-> Instr("remove", ks[i], NoneData)]

\* _continue from the end of its input loop: `action` is what the loop left.
ContinueEnd(fr, action, inputs) ==
  LET isExit == action = "e"
      isStart == action = "s"
      out == IF isExit THEN process_exception(fr.request, "IgnoreRequest") ELSE <<>>
      ins == IF isStart THEN instructions \o RemoveAll(fr.requests) ELSE instructions
      handed == IF isStart THEN EmptyArchive ELSE fr.requests
      released == [fr.request EXCEPT !.meta.persist = "none"]
  IN /\ ScheduleAll(out, fr.sc, ins, exited \/ isExit)
     /\ feed' = IF isStart THEN fr.feed ELSE fr.resume_feed
     /\ resp' = IF isExit THEN resp
                ELSE resp \cup {Response(released, handed, {}, 0)}
     /\ exited' = (exited \/ isExit)
     /\ dec' = [n |-> dec.n + 1, empty |-> DOMAIN fr.requests = {},
                same |-> fr.feed = fr.resume_feed, inputs |-> inputs,
                action |-> action, loaded |-> fr.requests, handed |-> handed,
                outcome |-> IF isExit THEN "exit" ELSE IF isStart THEN "start" ELSE "continue"]
     /\ prompting' = NoFrame
     /\ flushedSince' = FALSE

\* _continue up to its input loop.
_continue(r) ==
  LET requests == load_archive
      fd == cfgFeed
      resume_feed == load_info
      action == IF DOMAIN requests # {} /\ fd # resume_feed THEN "x"
                ELSE IF DOMAIN requests # {} THEN "c"
                ELSE "s"
      fr == [active |-> TRUE, request |-> r, sc |-> sched \ {r}, requests |-> requests,
             feed |-> fd, resume_feed |-> resume_feed, inputs |-> <<>>]
  IN IF InCse(action)
       THEN ContinueEnd(fr, action, <<>>)
     ELSE /\ prompting' = fr
          /\ feed' = resume_feed
          /\ sched' = sched \ {r}
          /\ UNCHANGED <<resp, instructions, exited, afterExit, lastSched, dec, flushedSince>>

\* ----------------------------------------------------------- variable groups
files == <<archiveFile, infoFile, flushCase>>

closeVars == <<closing, closeSignals, closeRuns>>

threadVars == <<initialized, workerPc>>

pageHist == <<finished, upCont>>

scheduling == <<sched, lastSched, afterExit>>

decision == <<prompting, dec, exited>>

\* ---------------------------------------------------- HTTP error middleware
\* A Python value with its type: == between values of two types is False.
Str(text) == [type |-> "str", val |-> <<text>>]

\* urllib.parse.urlsplit: a SplitResult tuple, never a str.
urlsplit(url) == [type |-> "SplitResult", val |-> <<url.scheme, url.netloc, url.path>>]

PyEq(a, b) == a.type = b.type /\ a.val = b.val

Hosts == {"cloud.feedly.com", "example.org"}
Methods == {"GET", "POST"}
Statuses == {200, 401, 429}
RetrySeconds == {1, 10}

\* to_sleep = retry_after * 1.2, in tenths of a second.
SleepTenths == 12

NoHeader == [present |-> FALSE, secs |-> 0]
Call(op, arg) == [op |-> op, arg |-> arg]
RateRequest(host, method) ==
  [url |-> [scheme |-> "https", netloc |-> host, path |-> "/v3/streams/contents"],
   method |-> method, obj |-> 0]
RateResponse(status, retry_after) == [status |-> status, retry_after |-> retry_after]
NoExchange ==
  [active |-> FALSE, request |-> RateRequest("", "GET"),
   response |-> RateResponse(0, NoHeader), interrupted |-> FALSE]

\* request.copy(): another object with the same attributes.
copy(request) == [request EXCEPT !.obj = request.obj + 1]

\* The variant that compares the host of the URL and does not catch the
\* interrupt of wait().
process_response_no_except(request, response, interrupted) ==
  IF response.status = 401
    THEN [result |-> "IgnoreRequest", request |-> request, calls |-> <<>>]
  ELSE IF response.status = 429 /\ PyEq(Str(request.url.netloc), Str("cloud.feedly.com"))
    THEN IF response.retry_after.present
           THEN LET to_sleep == response.retry_after.secs * SleepTenths
                IN IF interrupted
                     THEN [result |-> "KeyboardInterrupt", request |-> request,
                           calls |-> <<Call("pause", 0), Call("wait", to_sleep)>>]
                   ELSE [result |-> "request", request |-> copy(request),
                         calls |-> <<Call("pause", 0), Call("wait", to_sleep),
                                     Call("unpause", 0)>>]
         ELSE [result |-> "IgnoreRequest", request |-> request,
               calls |-> <<Call("close_spider", 0)>>]
  ELSE [result |-> "response", request |-> request, calls |-> <<>>]

\* HTTPErrorDownloaderMiddleware.process_response; `interrupted` says whether
\* wait() is interrupted from the keyboard.  The result names what the method
\* returns or raises, and lists its calls on the engine in order.
process_response(request, response, interrupted) ==
  IF response.status = 401
    THEN [result |-> "IgnoreRequest", request |-> request, calls |-> <<>>]
  ELSE IF response.status = 429 /\ PyEq(urlsplit(request.url), Str("cloud.feedly.com"))
    THEN IF response.retry_after.present
           THEN LET retry_after == response.retry_after.secs
                    to_sleep == retry_after * SleepTenths
                    calls == <<Call("pause", 0), Call("wait", to_sleep), Call("unpause", 0)>>
                IN IF interrupted
                     THEN [result |-> "KeyboardInterrupt", request |-> request, calls |-> calls]
                   ELSE [result |-> "request", request |-> copy(request), calls |-> calls]
         ELSE [result |-> "IgnoreRequest", request |-> request,
               calls |-> <<Call("close_spider", 0)>>]
  ELSE [result |-> "response", request |-> request, calls |-> <<>>]

NoResult == [result |-> "none", request |-> RateRequest("", "GET"), calls |-> <<>>]

InitRateVars ==
  /\ rlPending = NoExchange
  /\ rlHandled = NoExchange
  /\ rlResult = NoResult
  /\ rlCount = 0

\* ---------------------------------------------------------- depth middleware
\* An output of a spider callback: an item, or a request with its meta.
Output(id, isRequest, tagged, inc_depth) ==
  [id |-> id, isRequest |-> isRequest, tagged |-> tagged, inc_depth |-> inc_depth,
   has_depth |-> FALSE, depth |-> 0]

Kinds ==
  {[isRequest |-> FALSE, tagged |-> FALSE, inc_depth |-> 0],
   [isRequest |-> TRUE, tagged |-> FALSE, inc_depth |-> 0]}
  \cup {[isRequest |-> TRUE, tagged |-> TRUE, inc_depth |-> k] : k \in 0..MaxTag}

\* r.meta.get('inc_depth', 0)
increase_in(r) == IF r.tagged THEN r.inc_depth ELSE 0

\* response.meta['depth'] once the stock middleware has defaulted it.
meta_depth(response) == IF response.has_depth THEN response.depth ELSE 0

\* scrapy.spidermiddlewares.depth.DepthMiddleware.process_spider_output.
DepthMiddleware(response, result, maxdepth) ==
  LET depth == meta_depth(response) + 1
      stamped == [i \in 1..Len(result) |->
                    IF result[i].isRequest
                      THEN [result[i] EXCEPT !.has_depth = TRUE, !.depth = depth]
                    ELSE result[i]]
  IN SelectSeq(stamped, LAMBDA r : ~(r.isRequest /\ maxdepth # 0 /\ depth > maxdepth))

\* ConditionalDepthSpiderMiddleware.process_spider_output with one pass of
\* its loop over the outputs ill-formed: every tagged request of tag 1 or
\* more goes to the stock check.
process_spider_output_eager(maxdepth, config, response, result) ==
  LET limit == IF maxdepth = 0 THEN config ELSE maxdepth
      should_increase == SelectSeq(result, LAMBDA r : r.isRequest /\ increase_in(r) >= 1)
      other_items == SelectSeq(result, LAMBDA r : ~(r.isRequest /\ increase_in(r) >= 1))
  IN [maxdepth |-> limit, should_increase |-> should_increase,
      out |-> other_items \o DepthMiddleware(response, should_increase, limit)]

\* ConditionalDepthSpiderMiddleware.process_spider_output; `maxdepth` is
\* self.maxdepth and `config` is DEPTH_LIMIT of the spider's configuration.
process_spider_output(maxdepth, config, response, result) ==
  LET limit == IF maxdepth = 0 THEN config ELSE maxdepth
      should_increase == SelectSeq(result, LAMBDA r : r.isRequest /\ increase_in(r) = 1)
      passed == SelectSeq(result, LAMBDA r : ~(r.isRequest /\ increase_in(r) = 1))
      other_items == [i \in 1..Len(passed) |->
                        IF passed[i].isRequest /\ increase_in(passed[i]) > 1
                          THEN [passed[i] EXCEPT !.inc_depth = increase_in(passed[i]) - 1]
                        ELSE passed[i]]
  IN [maxdepth |-> limit, should_increase |-> should_increase,
      out |-> other_items \o DepthMiddleware(response, should_increase, limit)]

NoResponse == [has_depth |-> FALSE, depth |-> 0]
NoTrail == [first |-> 0, passes |-> 0, checks |-> 0]

InitDepthVars ==
  /\ dMaxdepth = 0
  /\ dConfig = 0
  /\ dStage = "idle"
  /\ dResp = NoResponse
  /\ dBatch = <<>>
  /\ dIn = <<>>
  /\ dOut = <<>>
  /\ dSuper = <<>>
  /\ dTrail = [i \in 1..MaxOut |-> NoTrail]
  /\ dCalls = 0

\* ------------------------------------- the spider middlewares for records
\* URLs of feed entries, the records one run creates, the entries of one page.
ItemUrls == {"u1", "u2"}
MaxRecords == 3
MaxItems == 2
MaxIncDepth == 2
MaxProbeDepth == 1
MaxArgs == 3
\* The dispatches of one request that are followed.
MaxDispatches == 5
SourceStatuses == {200, 404}

\* An output of a spider callback: a record with an item, a record without
\* one (kind "other"), or a request.  source_fetched: the record has that key.
Out(id, kind, url) ==
  [id |-> id, kind |-> kind, url |-> url, source_fetched |-> FALSE, markup |-> FALSE]

NoRecord == Out(0, "none", "")

\* crawled_items.txt as f.read().split('\n') sees it.
CrawledFiles ==
  {[exists |-> FALSE, lines |-> {}]} \cup
  {[exists |-> TRUE, lines |-> L \cup {""}] : L \in SUBSET ItemUrls}

\* CrawledItemSpiderMiddleware.__init__ and init.
NewCrawled == [initialized |-> FALSE, crawled_items |-> {}]

crawled_init(st, file) ==
  [initialized |-> TRUE,
   crawled_items |-> st.crawled_items \cup (IF file.exists THEN file.lines ELSE {})]

\* CrawledItemSpiderMiddleware.process_spider_output: it reads crawled_items
\* as it is, init is not called.
crawled_process_spider_output(st, result) ==
  SelectSeq(result, LAMBDA data : data.kind # "item" \/ data.url \notin st.crawled_items)

\* FetchSourceSpiderMiddleware.__init__ and init.
NewFetchSource == [initialized |-> FALSE, scrape_source |-> FALSE]

fetch_init(scrape) == [initialized |-> TRUE, scrape_source |-> scrape]

\* The request for the entry's own URL, the record deferred in its meta.
SourceRequest(data) == [data EXCEPT !.kind = "source"]

DataOf(request) == [request EXCEPT !.kind = "item"]

\* The loop of FetchSourceSpiderMiddleware.process_spider_output.
FetchLoop(result) ==
  [i \in 1..Len(result) |->
     IF result[i].kind # "item" \/ result[i].source_fetched
       THEN result[i]
       ELSE SourceRequest(result[i])]

\* FetchSourceSpiderMiddleware.process_spider_output.  `again` says whether
\* the result can be iterated more than once (a list); when it is an iterator,
\* what `yield from` has consumed the loop does not see again.
fetch_process_spider_output(st, result, again) ==
  IF ~st.scrape_source
    THEN result \o FetchLoop(IF again THEN result ELSE <<>>)
    ELSE FetchLoop(result)

\* parse_source with a response of that status, handle_source_failure.
parse_source_unmarked(request, status) ==
  <<[DataOf(request) EXCEPT !.markup = status < 400]>>

parse_source(request, status) ==
  <<[DataOf(request) EXCEPT !.source_fetched = TRUE, !.markup = status < 400]>>

handle_source_failure(request) ==
  <<[DataOf(request) EXCEPT !.source_fetched = TRUE]>>

\* The body of a page of the streams endpoint: text that is not JSON, or a
\* mapping with or without `items`, `id` and `continuation`.
NoItems == [present |-> FALSE, list |-> <<>>]

EmptyMapping == [has_id |-> FALSE, items |-> NoItems, continuation |-> 0]

UrlSeqs == UNION {[1..n -> ItemUrls] : n \in 0..MaxItems}

Bodies ==
  {[json |-> FALSE, data |-> EmptyMapping]} \cup
  {[json |-> TRUE,
    data |-> [has_id |-> TRUE, items |-> [present |-> TRUE, list |-> l], continuation |-> c]] :
      l \in UrlSeqs, c \in 0..1} \cup
  {[json |-> TRUE,
    data |-> [has_id |-> FALSE, items |-> [present |-> TRUE, list |-> <<>>], continuation |-> 0]]} \cup
  {[json |-> TRUE, data |-> [has_id |-> TRUE, items |-> NoItems, continuation |-> 0]]}

guard_json(body) == IF body.json THEN body.data ELSE EmptyMapping

\* parse_feed as a generator run to its end: what it yields, whether it got
\* to call next_page, and the exception that ended it.  `for item in items`
\* raises TypeError when the mapping has no `items`; next_page reads
\* data['id'].
parse_feed_run(body, first) ==
  LET data == guard_json(body)
      items == data.items
      records == [i \in 1..Len(items.list) |-> Out(first + i - 1, "item", items.list[i])]
  IN IF ~items.present
       THEN [yielded |-> <<>>, next_page |-> FALSE, raised |-> "TypeError"]
     ELSE IF ~data.has_id
       THEN [yielded |-> records, next_page |-> TRUE, raised |-> "KeyError"]
     ELSE [yielded |-> records \o <<Out(first + Len(records), "request", "")>>,
           next_page |-> TRUE, raised |-> "none"]

NoParse == [called |-> FALSE, body |-> [json |-> FALSE, data |-> EmptyMapping],
            yielded |-> <<>>, next_page |-> FALSE, raised |-> "none"]

OutStart ==
  /\ crawled = NewCrawled
  /\ fetchsrc = NewFetchSource
  /\ oStage = "idle"
  /\ oBatch = <<>>
  /\ oNextId = 1
  /\ oPending = {}
  /\ oIntercepted = {}
  /\ oDelivered = [i \in 1..MaxRecords |-> 0]
  /\ oLast = [i \in 1..MaxRecords |-> NoRecord]
  /\ ciIn = <<>>
  /\ ciOut = <<>>
  /\ ciCalled = FALSE
  /\ pf = NoParse

InitOutVars ==
  /\ oScrape = FALSE
  /\ oFile = [exists |-> FALSE, lines |-> {}]
  /\ OutStart

\* --------------------------------------------------------- feed selection
\* Liveness as the probe records it: None (unknown), True (dead), False.
Liveness == {"None", "True", "False"}
Modes == {"dead", "alive", "dead+", "alive+", "all"}
Reasons == {"user_specified", "search"}

\* FeedlyRSSSpider.SELECTION_STRATS.
SELECTION_STRATS ==
  [select \in Modes |->
     CASE select = "dead" -> [None |-> 1, True |-> 1, False |-> 0]
       [] select = "alive" -> [None |-> 1, True |-> 0, False |-> 1]
       [] select = "dead+" -> [None |-> 1, True |-> 1, False |-> -128]
       [] select = "alive+" -> [None |-> 1, True |-> -128, False |-> 1]
       [] select = "all" -> [None |-> 1, True |-> 1, False |-> 1]]

\* The keys of `feeds` in the order the dict is walked.
FeedKeys(feeds) == SelectSeq(FeedOrder, LAMBDA f : f \in DOMAIN feeds)

\* A page request as filter_feeds asks next_page for it: initial, with or
\* without the priority keyword.
Scheduled(f, explicit, prio) == [feed |-> f, initial |-> TRUE, explicit |-> explicit, priority |-> prio]

filter_feeds_keeps_zero(select, feeds, reason) ==
  LET keys == FeedKeys(feeds)
  IN IF reason = "user_specified"
       THEN [i \in 1..Len(keys) |-> Scheduled(keys[i], FALSE, 0)]
       ELSE [i \in 1..Len(keys) |->
               Scheduled(keys[i], TRUE, SELECTION_STRATS[select][feeds[keys[i]]])]

\* FeedlyRSSSpider.filter_feeds.
filter_feeds(select, feeds, reason) ==
  LET keys == FeedKeys(feeds)
      kept == SelectSeq(keys, LAMBDA f : SELECTION_STRATS[select][feeds[f]] # 0)
  IN IF reason = "user_specified"
       THEN [i \in 1..Len(keys) |-> Scheduled(keys[i], FALSE, 0)]
       ELSE [i \in 1..Len(kept) |->
               Scheduled(kept[i], TRUE, SELECTION_STRATS[select][feeds[kept[i]]])]

InitSelVars ==
  /\ selMode = "all"
  /\ selMeta = "user_specified"
  /\ selFeeds = [f \in {} |-> "None"]
  /\ selOut = <<>>
  /\ selCalled = FALSE

\* ------------------------------------------------------- the command line
\* The crawl data: hyperlink URLs, each with one occurrence, an occurrence
\* with its tag and its class list.
LinkUrls == {"A", "B"}
Occurrences ==
  {[tag |-> "img", class |-> {}], [tag |-> "source", class |-> {"hidden"}],
   [tag |-> "a", class |-> {"citation"}], [tag |-> "a", class |-> {"citation", "hidden"}]}
Stores == [LinkUrls -> {{o} : o \in Occurrences}]

\* The criteria topic=value, a filter as split(','), the filters given to
\* one option.
Criterion(topic, value) == [topic |-> topic, value |-> value]
Criteria ==
  {Criterion("tag", "img"), Criterion("tag", "a"), Criterion("tag", "source"),
   Criterion("class", "citation"), Criterion("class", "hidden")}
FilterTexts == {<<c>> : c \in Criteria} \cup {<<c, d>> : c, d \in Criteria}
FilterLists ==
  {<<>>} \cup {<<f>> : f \in FilterTexts} \cup
  {<<f, <<c>>>> : f \in FilterTexts, c \in Criteria}
ExcludeLists == {<<>>} \cup {<<<<c>>>> : c \in Criteria}

\* Whether an occurrence satisfies topic=value.
Satisfies(occ, topic, value) ==
  IF topic = "tag" THEN occ.tag = value ELSE value \in occ.class

\* _kvp_to_dict: dict() keeps, per topic, the value given last.
_kvp_to_dict(f) ==
  [t \in {f[i].topic : i \in 1..Len(f)} |->
     f[CHOOSE i \in 1..Len(f) :
         f[i].topic = t /\ \A j \in 1..Len(f) : f[j].topic = t => j <= i].value]

\* HyperlinkStore.get_all: the URLs with an occurrence that satisfies every
\* criterion of the dict.
get_all(store, criteria) ==
  {u \in DOMAIN store :
     \E occ \in store[u] : \A t \in DOMAIN criteria : Satisfies(occ, t, criteria[t])}

\* reduce(lambda x, y: x | set(store.get_all(**_kvp_to_dict(y))), filters, set())
Reduce(store, filters) ==
  UNION {get_all(store, _kvp_to_dict(filters[i])) : i \in 1..Len(filters)}

DefaultInclude == <<<<Criterion("tag", "img")>>, <<Criterion("tag", "source")>>>>

\* collect_urls: what it prints.
collect_urls(store, include, exclude) ==
  LET inc == IF include = <<>> /\ exclude = <<>> THEN DefaultInclude ELSE include
  IN Reduce(store, inc) \ Reduce(store, exclude)

\* export: the topics tried, and those feedly.exporters has a module for.
Topics == {"urls", "graph", "help", "feeds"}
Exporters == {"urls", "graph"}

Outcome(message, status, invoked) == [message |-> message, status |-> status, invoked |-> invoked]

NoOutcome == Outcome("none", -1, "none")

\* help_export as export_load_exporter invokes it: the help of the command
\* when the exporter is the command itself, else that of the exporter.
help_export(exporter) ==
  IF exporter = "export"
    THEN Outcome("help of export", 0, "none")
    ELSE Outcome("help of exporter", 0, "none")

\* export_load_exporter, the callback of the topic argument: the exporter it
\* returns, or the outcome it exits with.  When the import fails the name
\* `exporter` is bound to the command `export`, never to None.
export_load_exporter(value, help) ==
  LET exporter == IF value \in Exporters THEN value ELSE "export"
  IN IF help THEN [exits |-> TRUE, exporter |-> exporter, outcome |-> help_export(exporter)]
     ELSE IF exporter = "None"
       THEN [exits |-> TRUE, exporter |-> exporter,
             outcome |-> Outcome("No exporter found for topic", 1, "none")]
     ELSE [exits |-> FALSE, exporter |-> exporter, outcome |-> NoOutcome]

\* The export command: its parameters are processed, then its body calls
\* topic.export; the command object has no attribute `export`.
export(value, help, input) ==
  LET loaded == export_load_exporter(value, help)
  IN IF loaded.exits THEN loaded.outcome
     ELSE IF ~input THEN Outcome("Missing option", 2, "none")
     ELSE IF loaded.exporter = "export" THEN Outcome("Traceback: AttributeError", 1, "none")
     ELSE Outcome("none", 0, loaded.exporter)

NoArgs == [topic |-> "help", help |-> FALSE, input |-> FALSE]

InitCliVars ==
  /\ cuStore = [u \in {} |-> {}]
  /\ cuInclude = <<>>
  /\ cuExclude = <<>>
  /\ cuOut = {}
  /\ cuRan = FALSE
  /\ exArgs = NoArgs
  /\ exRes = NoOutcome

\* ------------------------------------------------------ the request filter
\* What a test returns: a truthy value, a falsy one, or a replacement request.
TestResults == {"truthy", "falsy", "request"}

\* The test of DEFAULT_FILTERS, and the tests a spider adds with
\* REQUEST_FILTERS: name -> priority and what the test returns this time.
DefaultTests == {[name |-> "filter_domains", prio |-> 300, result |-> r] : r \in TestResults}
CustomTests ==
  {[name |-> "first", prio |-> p, result |-> r] : p \in {100, 200}, r \in TestResults} \cup
  {[name |-> "last", prio |-> p, result |-> r] : p \in {400, 500}, r \in TestResults}
TestSets ==
  {{d} \cup C : d \in DefaultTests,
                C \in {X \in SUBSET CustomTests : \A x, y \in X : x.name = y.name => x = y}}

\* RequestFilterDownloaderMiddleware.init: the tests sorted by priority.
RECURSIVE SortedTests(_)
SortedTests(tests) ==
  IF tests = {} THEN <<>>
  ELSE LET t == CHOOSE x \in tests : \A y \in tests : x.prio <= y.prio
       IN <<t>> \o SortedTests(tests \ {t})

FilterOutcome(ran, ignore, proceed, out, marked) ==
  [called |-> TRUE, ran |-> ran, if_ignore |-> ignore, if_proceed |-> proceed, out |-> out,
   marked |-> marked]

filter_process_request_no_bypass(request, tests) ==
  LET order == SortedTests(tests)
      stops == {i \in 1..Len(order) : order[i].result # "truthy"}
      k == IF stops = {} THEN 0 ELSE CHOOSE i \in stops : \A j \in stops : i <= j
      Names(n) == [i \in 1..n |-> order[i].name]
  IN IF k = 0
       THEN FilterOutcome(Names(Len(order)), FALSE, request.if_proceed, "None", FALSE)
     ELSE IF order[k].result = "falsy"
       THEN FilterOutcome(Names(k), request.if_ignore, FALSE, "IgnoreRequest", FALSE)
     ELSE FilterOutcome(Names(k), FALSE, FALSE, "Request", TRUE)

\* RequestFilterDownloaderMiddleware.process_request: the tests it ran, the
\* callbacks of the meta it invoked, and how it ended.
filter_process_request(request, tests) ==
  LET order == SortedTests(tests)
      stops == {i \in 1..Len(order) : order[i].result # "truthy"}
      k == IF stops = {} THEN 0 ELSE CHOOSE i \in stops : \A j \in stops : i <= j
      Names(n) == [i \in 1..n |-> order[i].name]
  IN IF request.no_filter
       THEN FilterOutcome(<<>>, FALSE, FALSE, "None", FALSE)
     ELSE IF k = 0
       THEN FilterOutcome(Names(Len(order)), FALSE, request.if_proceed, "None", FALSE)
     ELSE IF order[k].result = "falsy"
       THEN FilterOutcome(Names(k), request.if_ignore, FALSE, "IgnoreRequest", FALSE)
     ELSE FilterOutcome(Names(k), FALSE, FALSE, "Request", TRUE)

InitFiltVars ==
  /\ rfArgs = [request |-> [no_filter |-> FALSE, if_ignore |-> FALSE, if_proceed |-> FALSE],
               tests |-> {}]
  /\ rfRes = [FilterOutcome(<<>>, FALSE, FALSE, "None", FALSE) EXCEPT !.called = FALSE]


\* ------------------------------------------------------------ feed probing
\* What the service answers to the fetch of one candidate: the download
\* fails, or it succeeds without or with a non-empty `items`.
FetchOutcomes == {"failed", "empty", "items"}

\* What a HEAD check ends as: a Failure whose exception carries no response,
\* a Failure whose exception carries one, or a response (with a status
\* outside {200, 206, 405}, with content that is not RSS, or a live feed).
HeadOutcomes == {"failure", "failure_response", "status", "not_rss", "rss"}

STATE_SELECT == {"all", "dead", "dead+", "alive", "alive+"}

ProbeQuery == "q"
Candidates == <<StreamId("f1"), StreamId("f2")>>
Found == StreamId("f3")
ProbeIds == {Candidates[1], Candidates[2], Found}
NoId == <<"none", "">>

\* The search document: whether the download succeeded, its top-level `id`
\* (NoId when it has none) and the feed ids of its `results`.
SearchDocs ==
  {[ok |-> FALSE, id |-> NoId, results |-> <<>>]} \cup
  [ok : {TRUE}, id : {NoId, StreamId(ProbeQuery)}, results : {<<Candidates[1], Found>>}] \cup
  {[ok |-> TRUE, id |-> NoId, results |-> <<>>]}

\* The answers to the HEAD checks: one feed or every feed ends one way that
\* is not a live feed, every other feed is live.
HeadAnswers ==
  {[f \in ProbeIds |-> IF f \in S THEN o ELSE "rss"] :
     S \in {{Candidates[1]}, ProbeIds}, o \in HeadOutcomes}

TitleOf(id) == <<"title of", get_feed_uri(id)>>
NoInfo == [url |-> "", title |-> <<>>]
Unset == "None"

ProbeUrl(ep, what) == Url(ep, what, 1)

ProbeOutcome(out, fetched, wrote, valid, info, try, depth) ==
  [called |-> TRUE, out |-> out, fetched |-> fetched, wrote |-> wrote,
   valid_feeds |-> valid, feed_info |-> info, try_feeds |-> try, depth |-> depth]

\* FeedProbingDownloaderMiddleware.init
test_status(select) == select \in {"dead", "dead+", "alive", "alive+"}

\* FeedProbingDownloaderMiddleware.feed_info: None when data has no `id`
\* (a KeyError).
feed_info(data) ==
  IF data.id = NoId THEN NoInfo
  ELSE [url |-> get_feed_uri(data.id), title |-> data.title]

\* FeedProbingDownloaderMiddleware.probe_feed_status: the liveness of every
\* feed; it raises AttributeError when a Failure carries no response.
probe_feed_status(feeds, head) ==
  [raised |-> \E f \in feeds : head[f] = "failure",
   feeds |-> [f \in feeds |-> IF head[f] = "rss" THEN "alive" ELSE "dead"]]

\* FeedProbingDownloaderMiddleware.process_request
probe_process_request(a) ==
  LET ids == {a.try_feeds[i] : i \in 1..Len(a.try_feeds)}
      fetched1 == {ProbeUrl("streams", get_feed_uri(f)) : f \in ids}
      valid1 == {f \in ids : a.fetch[f] = "items"}
      info1 == [f \in valid1 |-> feed_info([id |-> f, title |-> TitleOf(f)])]
      search == valid1 = {} /\ a.enable_search
      fetched2 == IF search THEN fetched1 \cup {ProbeUrl("search", a.query)} ELSE fetched1
      doc == a.search
      found == IF search /\ doc.ok THEN {doc.results[i] : i \in 1..Len(doc.results)} ELSE {}
      valid2 == valid1 \cup found
      info2 == [f \in valid2 |->
                  IF f \in found THEN feed_info([id |-> doc.id, title |-> ""]) ELSE info1[f]]
      tests == test_status(a.select)
      fetched3 == IF tests THEN fetched2 \cup {ProbeUrl("HEAD", get_feed_uri(f)) : f \in valid2}
                  ELSE fetched2
      status == probe_feed_status(valid2, a.head)
      valid3 == IF tests THEN status.feeds ELSE [f \in valid2 |-> Unset]
      depth == IF a.inc_depth # 0 THEN a.depth - 1 ELSE a.depth
      Raise(exc, fetched) ==
        ProbeOutcome(exc, fetched, FALSE, [f \in {} |-> Unset], [f \in {} |-> NoInfo], TRUE,
                     a.depth)
  IN IF ~a.probe THEN ProbeOutcome("None", {}, FALSE, [f \in {} |-> Unset],
                                   [f \in {} |-> NoInfo], TRUE, a.depth)
     ELSE IF search /\ ~doc.ok THEN Raise("Failure", fetched2)
     ELSE IF found # {} /\ doc.id = NoId THEN Raise("KeyError", fetched2)
     ELSE IF tests /\ status.raised THEN Raise("AttributeError", fetched3)
     ELSE ProbeOutcome("Response", fetched3, TRUE, valid3, info2, FALSE, depth)

ProbeArgs(probe, try, fetch, enable, doc, select, head, inc, depth) ==
  [probe |-> probe, query |-> ProbeQuery, try_feeds |-> try, fetch |-> fetch,
   enable_search |-> enable, search |-> doc, select |-> select, head |-> head,
   inc_depth |-> inc, depth |-> depth]

InitProbeVars ==
  /\ pbArgs = ProbeArgs(FALSE, <<>>, [f \in {} |-> "failed"], FALSE,
                        [ok |-> FALSE, id |-> NoId, results |-> <<>>], "all",
                        [f \in ProbeIds |-> "rss"], 0, 1)
  /\ pbRes = [probe_process_request(pbArgs) EXCEPT !.called = FALSE]



\* ------------------------------------------------------ logging bootstrap
\* A command-line argument is a tuple of its parts: <<"-s">>, <<"crawl">>, or
\* <<key, "=", value>> for key=value.
Arg(text) == <<text>>
KeyValue(k, v) == <<k, "=", v>>

\* s.split('=', 1)
split(s) == IF Len(s) = 3 /\ s[2] = "=" THEN <<s[1], s[3]>> ELSE <<s>>

\* The logging keys of `settings` with their defaults, as an f-string shows
\* them.
settings_default == [LOG_FILE |-> "None", LOG_LEVEL |-> "20"]

\* The options the command line is made of: an option with its value, or a
\* single argument (flag "").
Option(flag, value) == [flag |-> flag, value |-> value]
Options ==
  {Option("-s", KeyValue("LOG_LEVEL", "DEBUG")),
   Option("--settings", KeyValue("LOG_LEVEL", "INFO")),
   Option("-s", KeyValue("LOG_FILE", "a.log")),
   Option("-s", KeyValue("DEPTH_LIMIT", "2")),
   Option("--logfile", Arg("out.log")),
   Option("-L", Arg("DEBUG")),
   Option("", Arg("crawl"))}
Programs == {"scrapy", "python"}

RECURSIVE Flatten(_)
Flatten(options) ==
  IF options = <<>> THEN <<>>
  ELSE LET o == Head(options)
       IN (IF o.flag = "" THEN <<o.value>> ELSE <<Arg(o.flag), o.value>>)
          \o Flatten(Tail(options))

\* parser.parse_known_args(sys.argv[1:]): every -s/--settings value in
\* order, the last --logfile and the last -L/--loglevel ("" for None).
parse_known_args(options) ==
  LET Of(flags) == SelectSeq(options, LAMBDA o : o.flag \in flags)
      Last(s) == IF s = <<>> THEN "" ELSE s[Len(s)].value[1]
      given == Of({"-s", "--settings"})
  IN [settings |-> [i \in 1..Len(given) |-> given[i].value],
      logfile |-> Last(Of({"--logfile"})),
      loglevel |-> Last(Of({"-L", "--loglevel"}))]

\* The settings after the merge of the defaults, the -s pairs (the last one
\* of a key wins) and --logfile, --loglevel.
merged_settings(args) ==
  LET pairs == SelectSeq([i \in 1..Len(args.settings) |-> split(args.settings[i])],
                         LAMBDA t : Len(t) = 2 /\ t[1] \in DOMAIN settings_default)
      Given(k) == {i \in 1..Len(pairs) : pairs[i][1] = k}
      FromS(k) == IF Given(k) = {} THEN settings_default[k]
                  ELSE pairs[CHOOSE i \in Given(k) : \A j \in Given(k) : j <= i][2]
  IN [k \in DOMAIN settings_default |->
        IF k = "LOG_FILE" /\ args.logfile # "" THEN args.logfile
        ELSE IF k = "LOG_LEVEL" /\ args.loglevel # "" THEN args.loglevel
        ELSE FromS(k)]

\* sorted(pos, reverse=True)
RECURSIVE sorted_reverse(_)
sorted_reverse(pos) ==
  IF pos = <<>> THEN <<>>
  ELSE LET i == CHOOSE i \in 1..Len(pos) : \A j \in 1..Len(pos) : pos[j] <= pos[i]
       IN <<pos[i]>> \o sorted_reverse(SubSeq(pos, 1, i - 1) \o SubSeq(pos, i + 1, Len(pos)))

\* The positions (from 0) the loop over sys.argv collects.
RECURSIVE positions(_, _, _)
positions(argv, enabled, i) ==
  IF i >= Len(argv) THEN <<>>
  ELSE (IF argv[i + 1] = Arg("--logfile") THEN <<i, i + 1>> ELSE <<>>)
       \o (IF argv[i + 1] \in enabled THEN <<i - 1, i>> ELSE <<>>)
       \o positions(argv, enabled, i + 1)

\* for i in pos: sys.argv.pop(i); pop raises IndexError past the end.
RECURSIVE pop_all(_, _)
pop_all(argv, pos) ==
  IF pos = <<>> THEN [raised |-> FALSE, argv |-> argv]
  ELSE LET i == Head(pos)
       IN IF i >= Len(argv) THEN [raised |-> TRUE, argv |-> argv]
          ELSE pop_all(SubSeq(argv, 1, i) \o SubSeq(argv, i + 2, Len(argv)), Tail(pos))

\* _config_logging: sys.argv when it is done, and whether it raised.
_config_logging(program, custom, options) ==
  LET argv == <<Arg(program)>> \o Flatten(options)
      settings == merged_settings(parse_known_args(options))
      enabled == {KeyValue(k, settings[k]) : k \in DOMAIN settings}
      popped == pop_all(argv, sorted_reverse(positions(argv, enabled, 0)))
  IN IF ~custom \/ program # "scrapy" THEN [called |-> TRUE, raised |-> FALSE, argv |-> argv]
     ELSE [called |-> TRUE, raised |-> popped.raised,
           argv |-> IF popped.raised THEN popped.argv ELSE Append(popped.argv, Arg("--nolog"))]

InitArgVars ==
  /\ lgArgs = [program |-> "python", custom |-> FALSE, options |-> <<>>]
  /\ lgRes = [_config_logging("python", FALSE, <<>>) EXCEPT !.called = FALSE]

\* --------------------------------- the source-page fetch middleware, alone
InitPassVars ==
  /\ fsArgs = [scrape |-> FALSE, again |-> FALSE, result |-> <<>>]
  /\ fsRes = [called |-> FALSE, out |-> <<>>]

\* ------------------------------------------- re-issue by a downloader stage
\* A request as the two stages see it: meta no_filter, if_ignore, if_proceed
\* and auth ("" when there is none), and its Authorization header (<<>> when
\* it has none).
DispatchRequest(no_filter, ignore, proceed, auth, header) ==
  [no_filter |-> no_filter, if_ignore |-> ignore, if_proceed |-> proceed, auth |-> auth,
   Authorization |-> header, obj |-> 0]

Tokens == {"", "token"}
Headers == {<<>>, <<"OAuth ", "other">>}

DispatchRequests ==
  {DispatchRequest(n, i, p, a, h) : n \in BOOLEAN, i \in BOOLEAN, p \in BOOLEAN, a \in Tokens,
                                    h \in Headers}

\* The replacement that leaves out the header.
auth_process_request_no_header(request) ==
  IF request.Authorization # <<>> THEN [out |-> "None", request |-> request]
  ELSE IF request.auth # ""
    THEN [out |-> "Request", request |-> copy(request)]
  ELSE [out |-> "None", request |-> request]

\* AuthorizationDownloaderMiddleware.process_request
auth_process_request(request) ==
  IF request.Authorization # <<>> THEN [out |-> "None", request |-> request]
  ELSE IF request.auth # ""
    THEN [out |-> "Request",
          request |-> [copy(request) EXCEPT !.Authorization = <<"OAuth ", request.auth>>]]
  ELSE [out |-> "None", request |-> request]

NoDispatch ==
  [phase |-> "none", request |-> DispatchRequest(FALSE, FALSE, FALSE, "", <<>>), dispatches |-> 0,
   filter |-> 0, auth |-> 0, ran |-> <<>>, last |-> "none"]

InitDispVars == dq = NoDispatch

InitLaterVars == InitFiltVars /\ InitProbeVars /\ InitArgVars /\ InitPassVars /\ InitDispVars

InitUnitVars == InitOutVars /\ InitSelVars /\ InitCliVars /\ InitLaterVars

\* ------------------------------------------------------------------ actions
Running == engine = "running" /\ ~prompting.active /\ Len(instructions) < MaxQueue

OldPayloads ==
  {[req |-> next_page([id |-> StreamId(f), continuation |-> c], NoRequest, TRUE,
                      ProbeMeta),
    time |-> 0] : f \in Feeds, c \in OldConts}

InitCrawl ==
  /\ cfgFeed \in Configured
  /\ engine = "idle"
  /\ sched = {}
  /\ resp = {}
  /\ initialized = FALSE
  /\ feed = "None"
  /\ instructions = <<>>
  /\ closing = FALSE
  /\ workerPc = "unstarted"
  /\ \E S \in SUBSET Feeds : archiveFile \in [S -> OldPayloads]
  /\ \A k \in DOMAIN archiveFile : archiveFile[k].req.meta.pkey = k
  /\ infoFile \in Queries \cup {"missing"}
  /\ prompting = NoFrame
  /\ dec = [n |-> 0, empty |-> TRUE, same |-> TRUE, inputs |-> <<>>, action |-> "",
            loaded |-> EmptyArchive, handed |-> EmptyArchive, outcome |-> "none"]
  /\ exited = FALSE
  /\ afterExit = FALSE
  /\ lastSched = [f \in Feeds |-> NoRequest]
  /\ finished = {}
  /\ upCont = [f \in Feeds |-> -1]
  /\ flushedSince = FALSE
  /\ flushCase = {}
  /\ closeSignals = 0
  /\ closeRuns = 0

InitStepVars ==
  /\ writers = 0
  /\ wArch = EmptyArchive
  /\ wLast = FALSE
  /\ mPc = "loop"
  /\ mArch = EmptyArchive
  /\ expected = archiveFile

Init == InitCrawl /\ InitRateVars /\ InitDepthVars /\ InitStepVars /\ InitUnitVars

\* start_requests: the engine schedules the ResumeRequest; request_scheduled
\* reaches eager_process, whose process_request runs init().
StartRequests ==
  /\ engine = "idle"
  /\ engine' = "running"
  /\ ScheduleAll(<<ResumeRequest("resume_crawl")>>, sched, instructions, exited)
  /\ initialized' = TRUE
  /\ feed' = init_feed
  /\ workerPc' = init_thread
  /\ UNCHANGED <<cfgFeed, aside, resp, files, closeVars, decision, pageHist, flushedSince>>

\* The dispatch of the request tagged release: the resume decision.
Resume(r) ==
  /\ Running
  /\ r \in sched
  /\ process_request(r, FALSE).out = "_continue"
  /\ _continue(r)
  /\ UNCHANGED <<cfgFeed, aside, engine, files, closeVars, threadVars, pageHist>>

\* One line typed at the prompt of _continue.
PromptInput(a) ==
  /\ prompting.active
  /\ engine = "running"
  /\ InCse(a) \/ Len(prompting.inputs) + 1 < MaxPrompts
  /\ LET inputs == Append(prompting.inputs, a)
     IN IF InCse(a)
          THEN ContinueEnd(prompting, a, inputs)
        ELSE /\ prompting' = [prompting EXCEPT !.inputs = inputs]
             /\ UNCHANGED <<sched, resp, feed, instructions, exited, afterExit, lastSched,
                            dec, flushedSince>>
  /\ UNCHANGED <<cfgFeed, aside, engine, files, closeVars, threadVars, pageHist>>

\* The dispatch of a page request: process_request, then the download.
Download(r) ==
  /\ Running
  /\ r \in sched
  /\ r.cls = "Request"
  /\ LET pr == process_request(r, FALSE)
     IN /\ pr.out = "pass"
        /\ instructions' = instructions \o pr.ins
        /\ \E c \in {0} \cup {n \in 1..MaxPages : n = r.url.cont + 1} :
             resp' = resp \cup {Response(pr.request, EmptyArchive, {}, c)}
  /\ sched' = sched \ {r}
  /\ UNCHANGED <<cfgFeed, aside, engine, feed, lastSched, afterExit, files, closeVars, threadVars,
                 decision, pageHist, flushedSince>>

\* The dispatch of a ProbeRequest: the probing middleware answers it with the
\* feeds it found valid.
Probe(r) ==
  /\ Running
  /\ r \in sched
  /\ r.cls = "ProbeRequest"
  /\ LET pr == process_request(r, FALSE)
     IN /\ pr.out = "pass"
        /\ instructions' = instructions \o pr.ins
        /\ \E valid \in SUBSET Feeds :
             resp' = resp \cup {Response(pr.request, EmptyArchive, valid, 0)}
  /\ sched' = sched \ {r}
  /\ UNCHANGED <<cfgFeed, aside, engine, feed, lastSched, afterExit, files, closeVars, threadVars,
                 decision, pageHist, flushedSince>>

\* The dispatch of a request process_request raises on: process_exception
\* decides what is scheduled in its place.
Drop(r) ==
  /\ Running
  /\ r \in sched
  /\ LET pr == process_request(r, FALSE)
     IN /\ pr.out \in {"ValueError", "IgnoreRequest"}
        /\ ScheduleAll(process_exception(r, pr.out), sched \ {r},
                       instructions \o pr.ins, exited)
  /\ UNCHANGED <<cfgFeed, aside, engine, resp, feed, files, closeVars, threadVars, decision,
                 pageHist, flushedSince>>

resume_crawl_probes_too(rs) ==
  /\ Running
  /\ rs \in resp
  /\ rs.req.cb = "resume_crawl"
  /\ LET ks == OrderOf(DOMAIN rs.requests)
         out == <<probe_feed(cfgFeed, ProbeMeta)>> \o
                [i \in 1..Len(ks) |-> reconstruct_request(rs.requests[ks[i]])]
     IN ScheduleAll(out, sched, instructions, exited)
  /\ resp' = resp \ {rs}
  /\ UNCHANGED <<cfgFeed, aside, engine, feed, files, closeVars, threadVars, decision, pageHist,
                 flushedSince>>

\* resume_crawl, the callback of the ResumeRequest.
resume_crawl(rs) ==
  /\ Running
  /\ rs \in resp
  /\ rs.req.cb = "resume_crawl"
  /\ LET ks == OrderOf(DOMAIN rs.requests)
         out == IF ks = <<>>
                  THEN <<probe_feed(cfgFeed, ProbeMeta)>>
                ELSE [i \in 1..Len(ks) |-> reconstruct_request(rs.requests[ks[i]])]
     IN ScheduleAll(out, sched, instructions, exited)
  /\ resp' = resp \ {rs}
  /\ UNCHANGED <<cfgFeed, aside, engine, feed, files, closeVars, threadVars, decision, pageHist,
                 flushedSince>>

\* start_feeds, the callback of the ProbeRequest, for a user-specified seed.
start_feeds(rs) ==
  /\ Running
  /\ rs \in resp
  /\ rs.req.cb = "start_feeds"
  /\ LET meta == rs.req.meta
         fs == OrderOf(rs.valid)
         out == <<FinishedRequest(meta)>> \o
                [i \in 1..Len(fs) |->
                   next_page([id |-> StreamId(fs[i]), continuation |-> 0], NoRequest, TRUE, meta)]
     IN ScheduleAll(out, sched, instructions, exited)
  /\ resp' = resp \ {rs}
  /\ UNCHANGED <<cfgFeed, aside, engine, feed, files, closeVars, threadVars, decision, pageHist,
                 flushedSince>>

\* parse_feed, the callback of a page request: the items, then next_page.
parse_feed(rs) ==
  /\ Running
  /\ rs \in resp
  /\ rs.req.cb = "parse_feed"
  /\ LET data == [id |-> StreamId(rs.req.url.feed), continuation |-> rs.cont]
         nr == next_page(data, rs.req, FALSE, NoMeta)
     IN /\ ScheduleAll(<<nr>>, sched, instructions, exited)
        /\ finished' = IF nr.cls = "FinishedRequest" /\ nr.meta.persist = "remove"
                         THEN finished \cup {nr.meta.pkey} ELSE finished
        /\ upCont' = [upCont EXCEPT ![rs.req.url.feed] = rs.cont]
  /\ resp' = resp \ {rs}
  /\ UNCHANGED <<cfgFeed, aside, engine, feed, files, closeVars, threadVars, decision, flushedSince>>

\* The response synthesized for a FinishedRequest reaches no spider callback
\* that emits anything.
finished_callback(rs) ==
  /\ Running
  /\ rs \in resp
  /\ rs.req.cls = "FinishedRequest"
  /\ resp' = resp \ {rs}
  /\ UNCHANGED <<cfgFeed, aside, engine, feed, instructions, scheduling, files, closeVars,
                 threadVars, decision, pageHist, flushedSince>>

\* worker(): closing.wait(20) timed out, so it returned False: the loop is
\* left, archive() runs once and the thread ends.
WorkerTimeout ==
  /\ workerPc = "wait"
  /\ ~closing
  /\ archive
  /\ workerPc' = "done"
  /\ UNCHANGED <<cfgFeed, aside, engine, resp, feed, initialized, scheduling, closeVars, decision,
                 pageHist>>

\* worker(): closing is set, so closing.wait(20) returned True: the loop body
\* runs archive() and the thread waits again.
WorkerLoop ==
  /\ workerPc = "wait"
  /\ closing
  /\ archive
  /\ UNCHANGED <<cfgFeed, aside, engine, resp, feed, threadVars, scheduling, closeVars, decision,
                 pageHist>>

\* _close, connected to spider_closed.
_close ==
  /\ engine \in {"running", "closed"}
  /\ ~prompting.active
  /\ closeSignals < MaxCloseSignals
  /\ closeSignals' = closeSignals + 1
  /\ engine' = "closed"
  /\ IF closing
       THEN UNCHANGED <<closing, closeRuns, instructions, files, flushedSince>>
     ELSE /\ closing' = TRUE
          /\ archive
          /\ closeRuns' = closeRuns + 1
  /\ UNCHANGED <<cfgFeed, aside, resp, feed, threadVars, scheduling, decision, pageHist>>

Next ==
  \/ StartRequests
  \/ \E r \in sched : Resume(r)
  \/ \E a \in Answers : PromptInput(a)
  \/ \E r \in sched : Download(r)
  \/ \E r \in sched : Probe(r)
  \/ \E r \in sched : Drop(r)
  \/ \E rs \in resp : resume_crawl(rs)
  \/ \E rs \in resp : start_feeds(rs)
  \/ \E rs \in resp : parse_feed(rs)
  \/ \E rs \in resp : finished_callback(rs)
  \/ WorkerTimeout
  \/ WorkerLoop
  \/ _close

Spec == Init /\ [][Next]_vars

\* ------------------------------------- the HTTP error middleware on its own
crawlVars == <<cfgFeed, engine, sched, resp, initialized, feed, instructions, closing,
               workerPc, archiveFile, infoFile, prompting, dec, exited, afterExit,
               lastSched, finished, upCont, flushedSince, flushCase,
               closeSignals, closeRuns>>

\* No crawl: nothing archived, no info.json.
InitNoCrawl == InitCrawl /\ DOMAIN archiveFile = {} /\ infoFile = "missing"

\* The downloader hands a response to the middleware chain.
ResponseArrives ==
  /\ ~rlPending.active
  /\ rlCount < MaxResponses
  /\ \E host \in Hosts, method \in Methods, status \in Statuses, interrupted \in BOOLEAN,
        header \in {NoHeader} \cup {[present |-> TRUE, secs |-> n] : n \in RetrySeconds} :
       rlPending' = [active |-> TRUE, request |-> RateRequest(host, method),
                     response |-> RateResponse(status, header),
                     interrupted |-> interrupted]
  /\ UNCHANGED <<rlHandled, rlResult, rlCount, crawlVars, depthVars, stepVars, unitVars>>

\* process_response on the response that arrived.
HandleResponse ==
  /\ rlPending.active
  /\ rlResult' = process_response(rlPending.request, rlPending.response, rlPending.interrupted)
  /\ rlHandled' = rlPending
  /\ rlPending' = NoExchange
  /\ rlCount' = rlCount + 1
  /\ UNCHANGED <<crawlVars, depthVars, stepVars, unitVars>>

InitRate == InitNoCrawl /\ InitRateVars /\ InitDepthVars /\ InitStepVars /\ InitUnitVars

NextRate == ResponseArrives \/ HandleResponse

SpecRate == InitRate /\ [][NextRate]_vars

\* ----------------------------------------- the depth middleware on its own
Ids(result) == {result[i].id : i \in 1..Len(result)}

\* A callback of the spider returns a new result for a response.
SpiderOutput ==
  /\ dStage = "idle"
  /\ dCalls = 0
  /\ \E n \in 1..MaxOut :
       \E ks \in [1..n -> Kinds] :
         /\ dBatch' = [i \in 1..n |->
                         Output(i, ks[i].isRequest, ks[i].tagged, ks[i].inc_depth)]
         /\ dTrail' = [i \in 1..MaxOut |->
                         IF i <= n /\ ks[i].isRequest
                           THEN [first |-> increase_in(ks[i]), passes |-> 0, checks |-> 0]
                         ELSE NoTrail]
  /\ \E d \in 0..MaxRespDepth, has \in BOOLEAN :
       dResp' = [has_depth |-> has, depth |-> IF has THEN d ELSE 0]
  /\ dStage' = "pending"
  /\ UNCHANGED <<dMaxdepth, dConfig, dIn, dOut, dSuper, dCalls, crawlVars, rateVars, stepVars, unitVars>>

\* The requests the middleware let through are answered, and the callbacks
\* of their responses return them again with the meta they have.
ReEmit ==
  /\ dStage = "idle"
  /\ dCalls > 0
  /\ dCalls < MaxPasses
  /\ SelectSeq(dOut, LAMBDA r : r.isRequest) # <<>>
  /\ dBatch' = SelectSeq(dOut, LAMBDA r : r.isRequest)
  /\ \E d \in 0..MaxRespDepth, has \in BOOLEAN :
       dResp' = [has_depth |-> has, depth |-> IF has THEN d ELSE 0]
  /\ dStage' = "pending"
  /\ UNCHANGED <<dMaxdepth, dConfig, dIn, dOut, dSuper, dTrail, dCalls, crawlVars, rateVars, stepVars, unitVars>>

\* process_spider_output on the result that waits.
DepthOutput ==
  /\ dStage = "pending"
  /\ LET res == process_spider_output(dMaxdepth, dConfig, dResp, dBatch)
     IN /\ dMaxdepth' = res.maxdepth
        /\ dOut' = res.out
        /\ dSuper' = res.should_increase
        /\ dTrail' = [i \in 1..MaxOut |->
                        [dTrail[i] EXCEPT
                           !.passes = @ + (IF i \in Ids(dBatch) THEN 1 ELSE 0),
                           !.checks = @ + (IF i \in Ids(res.should_increase) THEN 1 ELSE 0)]]
  /\ dIn' = dBatch
  /\ dBatch' = <<>>
  /\ dStage' = "idle"
  /\ dCalls' = dCalls + 1
  /\ UNCHANGED <<dConfig, dResp, crawlVars, rateVars, stepVars, unitVars>>

InitDepth ==
  /\ InitNoCrawl
  /\ InitRateVars
  /\ InitStepVars
  /\ InitUnitVars
  /\ dMaxdepth \in {0, MaxRespDepth}
  /\ dConfig \in 0..MaxRespDepth
  /\ dStage = "idle"
  /\ dResp = NoResponse
  /\ dBatch = <<>>
  /\ dIn = <<>>
  /\ dOut = <<>>
  /\ dSuper = <<>>
  /\ dTrail = [i \in 1..MaxOut |-> NoTrail]
  /\ dCalls = 0

NextDepth == SpiderOutput \/ ReEmit \/ DepthOutput

SpecDepth == InitDepth /\ [][NextDepth]_vars

\* ------------------------------- the two threads of the persistence middleware
\* archive() step by step, as the thread and the event loop run it: load the
\* file, apply the queue, clear the queue, open the file for writing (which
\* truncates it), write it and close it, write info.json.  A file some thread
\* has open for writing reads as ended early: load_archive suppresses the
\* EOFError and returns an empty mapping.
others == <<cfgFeed, sched, resp, prompting, dec, exited, afterExit, lastSched, finished,
            upCont, flushedSince, flushCase, rateVars, depthVars,
           unitVars>>

read_archive == IF writers > 0 THEN EmptyArchive ELSE archiveFile

NewPayload(f) ==
  [req |-> next_page([id |-> StreamId(f), continuation |-> 1], NoRequest, FALSE,
                     ProbeMeta),
   time |-> Now]

\* init(), run by the first process_request.
init ==
  /\ ~initialized
  /\ initialized' = TRUE
  /\ feed' = cfgFeed
  /\ workerPc' = "wait"
  /\ engine' = "running"
  /\ UNCHANGED <<instructions, closing, files, closeSignals, closeRuns, others, stepVars>>

\* _continue for the ResumeRequest, the first request of the run: the archive
\* it loads holds requests of another feed, and the user answers `e`.  It sets
\* self.feed to the feed of info.json and raises IgnoreRequest.
ExitAtPrompt ==
  /\ initialized
  /\ ~exited
  /\ mPc = "loop"
  /\ instructions = <<>>
  /\ DOMAIN read_archive # {}
  /\ cfgFeed # load_info
  /\ feed' = load_info
  /\ exited' = TRUE
  /\ UNCHANGED <<engine, initialized, instructions, closing, workerPc, files, closeSignals,
                 closeRuns, stepVars, cfgFeed, sched, resp, prompting, dec, afterExit,
                 lastSched, finished, upCont, flushedSince, rateVars, depthVars, unitVars>>

\* The event loop appends an instruction (_add_request, _remove_request); after
\* an exit no request is left to add or remove.
Enqueue ==
  /\ initialized
  /\ ~exited
  /\ mPc = "loop"
  /\ Len(instructions) < MaxPending
  /\ \E f \in Feeds :
       \E ins \in {Instr("add", f, NewPayload(f)), Instr("remove", f, NoneData)} :
         /\ instructions' = Append(instructions, ins)
         /\ expected' = ApplyOne(expected, ins)
  /\ UNCHANGED <<engine, initialized, feed, closing, workerPc, files, closeSignals, closeRuns,
                 others, writers, wArch, wLast, mPc, mArch>>

\* worker(): closing.wait(20) times out and returns False: the loop is left
\* for the archive() call after it.
WorkerTimedOut ==
  /\ workerPc = "wait"
  /\ ~closing
  /\ workerPc' = "load"
  /\ wLast' = TRUE
  /\ UNCHANGED <<engine, initialized, feed, instructions, closing, files, closeSignals,
                 closeRuns, others, writers, wArch, mPc, mArch, expected>>

\* worker(): closing is set, closing.wait(20) returns True: the loop body.
WorkerWoken ==
  /\ workerPc = "wait"
  /\ closing
  /\ workerPc' = "load"
  /\ UNCHANGED <<engine, initialized, feed, instructions, closing, files, closeSignals,
                 closeRuns, others, stepVars>>

WorkerLoad ==
  /\ workerPc = "load"
  /\ wArch' = read_archive
  /\ workerPc' = "apply"
  /\ UNCHANGED <<engine, initialized, feed, instructions, closing, files, closeSignals,
                 closeRuns, others, writers, wLast, mPc, mArch, expected>>

WorkerApply ==
  /\ workerPc = "apply"
  /\ wArch' = ApplyAll(wArch, instructions)
  /\ workerPc' = "clear"
  /\ UNCHANGED <<engine, initialized, feed, instructions, closing, files, closeSignals,
                 closeRuns, others, writers, wLast, mPc, mArch, expected>>

WorkerClear ==
  /\ workerPc = "clear"
  /\ instructions' = <<>>
  /\ workerPc' = "open"
  /\ UNCHANGED <<engine, initialized, feed, closing, files, closeSignals, closeRuns, others,
                 stepVars>>

WorkerOpen ==
  /\ workerPc = "open"
  /\ writers' = writers + 1
  /\ workerPc' = "write"
  /\ UNCHANGED <<engine, initialized, feed, instructions, closing, files, closeSignals,
                 closeRuns, others, wArch, wLast, mPc, mArch, expected>>

WorkerWrite ==
  /\ workerPc = "write"
  /\ archiveFile' = wArch
  /\ writers' = writers - 1
  /\ workerPc' = "info"
  /\ UNCHANGED <<engine, initialized, feed, instructions, closing, infoFile, flushCase,
                 closeSignals, closeRuns, others, wArch, wLast, mPc, mArch, expected>>

\* dump_info, then back to closing.wait(20), or the end of the thread.
WorkerInfo ==
  /\ workerPc = "info"
  /\ infoFile' = feed
  /\ workerPc' = IF wLast THEN "done" ELSE "wait"
  /\ UNCHANGED <<engine, initialized, feed, instructions, closing, archiveFile, flushCase,
                 closeSignals, closeRuns, others, stepVars>>

\* spider_closed reaches _close: the test of the flag, closing.set().
CloseSignal ==
  /\ initialized
  /\ mPc \in {"loop", "returned"}
  /\ closeSignals < MaxCloseSignals
  /\ closeSignals' = closeSignals + 1
  /\ engine' = "closed"
  /\ IF closing
       THEN UNCHANGED <<closing, closeRuns, mPc>>
     ELSE /\ closing' = TRUE
          /\ closeRuns' = closeRuns + 1
          /\ mPc' = "join"
  /\ UNCHANGED <<initialized, feed, instructions, workerPc, files, others, writers, wArch,
                 wLast, mArch, expected>>

\* thread.join(2) returns: the thread has ended, or two seconds have passed
\* with the thread in its loop (a thread that has left the loop is taken to
\* end within the two seconds).
Join ==
  /\ mPc = "join"
  /\ workerPc = "done" \/ ~wLast
  /\ mPc' = "load"
  /\ UNCHANGED <<engine, initialized, feed, instructions, closing, workerPc, files,
                 closeSignals, closeRuns, others, writers, wArch, wLast, mArch, expected>>

CloseLoad ==
  /\ mPc = "load"
  /\ mArch' = read_archive
  /\ mPc' = "apply"
  /\ UNCHANGED <<engine, initialized, feed, instructions, closing, workerPc, files,
                 closeSignals, closeRuns, others, writers, wArch, wLast, expected>>

CloseApply ==
  /\ mPc = "apply"
  /\ mArch' = ApplyAll(mArch, instructions)
  /\ mPc' = "clear"
  /\ UNCHANGED <<engine, initialized, feed, instructions, closing, workerPc, files,
                 closeSignals, closeRuns, others, writers, wArch, wLast, expected>>

CloseClear ==
  /\ mPc = "clear"
  /\ instructions' = <<>>
  /\ mPc' = "open"
  /\ UNCHANGED <<engine, initialized, feed, closing, workerPc, files, closeSignals, closeRuns,
                 others, writers, wArch, wLast, mArch, expected>>

CloseOpen ==
  /\ mPc = "open"
  /\ writers' = writers + 1
  /\ mPc' = "write"
  /\ UNCHANGED <<engine, initialized, feed, instructions, closing, workerPc, files,
                 closeSignals, closeRuns, others, wArch, wLast, mArch, expected>>

CloseWrite ==
  /\ mPc = "write"
  /\ archiveFile' = mArch
  /\ writers' = writers - 1
  /\ mPc' = "info"
  /\ UNCHANGED <<engine, initialized, feed, instructions, closing, workerPc, infoFile,
                 flushCase, closeSignals, closeRuns, others, wArch, wLast, mArch, expected>>

\* dump_info, and _close returns.
CloseInfo ==
  /\ mPc = "info"
  /\ infoFile' = feed
  /\ mPc' = "returned"
  /\ UNCHANGED <<engine, initialized, feed, instructions, closing, workerPc, archiveFile,
                 flushCase, closeSignals, closeRuns, others, writers, wArch, wLast, mArch,
                 expected>>

InitThreads == InitCrawl /\ InitRateVars /\ InitDepthVars /\ InitStepVars /\ InitUnitVars

NextThreads ==
  \/ init
  \/ Enqueue
  \/ ExitAtPrompt
  \/ WorkerTimedOut
  \/ WorkerWoken
  \/ WorkerLoad
  \/ WorkerApply
  \/ WorkerClear
  \/ WorkerOpen
  \/ WorkerWrite
  \/ WorkerInfo
  \/ CloseSignal
  \/ Join
  \/ CloseLoad
  \/ CloseApply
  \/ CloseClear
  \/ CloseOpen
  \/ CloseWrite
  \/ CloseInfo

SpecThreads == InitThreads /\ [][NextThreads]_vars

\* ------------------------------ the spider middlewares for records, running
\* What the other specifications keep of the state.
restOfOutput == <<crawlVars, rateVars, depthVars, stepVars, selVars, cliVars, laterVars>>

\* What leaves the middlewares: a source request goes to the engine, every
\* other output goes on downstream.
Deliver(out) ==
  LET reqs == {out[i] : i \in {j \in 1..Len(out) : out[j].kind = "source"}}
      Last(id) == CHOOSE i \in 1..Len(out) :
                    out[i].id = id /\ \A j \in 1..Len(out) : out[j].id = id => j <= i
      Times(id) == Cardinality({i \in 1..Len(out) : out[i].id = id /\ out[i].kind # "source"})
  IN /\ oPending' = oPending \cup reqs
     /\ oIntercepted' = oIntercepted \cup {r.id : r \in reqs}
     /\ oDelivered' = [id \in 1..MaxRecords |-> oDelivered[id] + Times(id)]
     /\ oLast' = [id \in 1..MaxRecords |->
                    IF Times(id) > 0 THEN out[Last(id)] ELSE oLast[id]]

\* parse_feed, the callback of a page request, given the body of the page.
ParseFeed(body) ==
  /\ oStage = "idle"
  /\ LET run == parse_feed_run(body, oNextId)
     IN /\ oNextId + Len(run.yielded) <= MaxRecords + 1
        /\ pf' = [called |-> TRUE, body |-> body, yielded |-> run.yielded,
                  next_page |-> run.next_page, raised |-> run.raised]
        /\ oBatch' = run.yielded
        /\ oNextId' = oNextId + Len(run.yielded)
        /\ oStage' = IF run.yielded = <<>> THEN "idle" ELSE "spider"
  /\ UNCHANGED <<oScrape, oFile, crawled, fetchsrc, oPending, oIntercepted, oDelivered,
                 oLast, ciIn, ciOut, ciCalled, restOfOutput>>

\* start_feeds yields get_feed_info: a record without an item.
FeedInfo ==
  /\ oStage = "idle"
  /\ oNextId <= MaxRecords
  /\ oBatch' = <<Out(oNextId, "other", "")>>
  /\ oNextId' = oNextId + 1
  /\ oStage' = "spider"
  /\ UNCHANGED <<oScrape, oFile, crawled, fetchsrc, oPending, oIntercepted, oDelivered,
                 oLast, ciIn, ciOut, ciCalled, pf, restOfOutput>>

\* CrawledItemSpiderMiddleware.process_spider_output gets the result.
CrawledItemOutput ==
  /\ oStage = "spider"
  /\ LET out == crawled_process_spider_output(crawled, oBatch)
     IN /\ ciIn' = oBatch
        /\ ciOut' = out
        /\ oBatch' = out
  /\ ciCalled' = TRUE
  /\ oStage' = "crawled"
  /\ UNCHANGED <<oScrape, oFile, crawled, fetchsrc, oNextId, oPending, oIntercepted,
                 oDelivered, oLast, pf, restOfOutput>>

\* FetchSourceSpiderMiddleware.process_spider_output gets what is left of it:
\* the generator of CrawledItemSpiderMiddleware, which is next to the spider.
FetchSourceOutput ==
  /\ oStage = "crawled"
  /\ LET st == IF fetchsrc.initialized THEN fetchsrc ELSE fetch_init(oScrape)
     IN /\ fetchsrc' = st
        /\ Deliver(fetch_process_spider_output(st, oBatch, FALSE))
  /\ oBatch' = <<>>
  /\ oStage' = "idle"
  /\ UNCHANGED <<oScrape, oFile, crawled, oNextId, ciIn, ciOut, ciCalled, pf, restOfOutput>>

\* The engine answers a source request with a response: parse_source.
SourceResponse(request, status) ==
  /\ oStage = "idle"
  /\ request \in oPending
  /\ oPending' = oPending \ {request}
  /\ oBatch' = parse_source(request, status)
  /\ oStage' = "spider"
  /\ UNCHANGED <<oScrape, oFile, crawled, fetchsrc, oNextId, oIntercepted, oDelivered,
                 oLast, ciIn, ciOut, ciCalled, pf, restOfOutput>>

\* The engine answers a source request with a failure: handle_source_failure.
SourceFailure(request) ==
  /\ oStage = "idle"
  /\ request \in oPending
  /\ oPending' = oPending \ {request}
  /\ oBatch' = handle_source_failure(request)
  /\ oStage' = "spider"
  /\ UNCHANGED <<oScrape, oFile, crawled, fetchsrc, oNextId, oIntercepted, oDelivered,
                 oLast, ciIn, ciOut, ciCalled, pf, restOfOutput>>

InitOutput ==
  /\ InitNoCrawl
  /\ InitRateVars
  /\ InitDepthVars
  /\ InitStepVars
  /\ InitSelVars
  /\ InitCliVars
  /\ InitLaterVars
  /\ oScrape \in BOOLEAN
  /\ oFile \in CrawledFiles
  /\ OutStart

\* Every result a callback yields is handed on, every source request is
\* answered.
Handling ==
  \/ CrawledItemOutput
  \/ FetchSourceOutput
  \/ \E r \in oPending, st \in SourceStatuses : SourceResponse(r, st)
  \/ \E r \in oPending : SourceFailure(r)

NextOutput ==
  \/ \E body \in Bodies : ParseFeed(body)
  \/ FeedInfo
  \/ CrawledItemOutput
  \/ FetchSourceOutput
  \/ \E r \in oPending, st \in SourceStatuses : SourceResponse(r, st)
  \/ \E r \in oPending : SourceFailure(r)

SpecOutput == InitOutput /\ [][NextOutput]_vars

SpecOutputFair == SpecOutput /\ WF_vars(Handling)

\* ------------------------------------------------ feed selection, running
\* The probe has answered with reason and feeds; start_feeds hands them to
\* filter_feeds.
ProbeAnswer(select, reason, feeds) ==
  /\ ~selCalled
  /\ selOut = <<>>
  /\ selMode' = select
  /\ selMeta' = reason
  /\ selFeeds' = feeds
  /\ UNCHANGED <<selOut, selCalled, crawlVars, rateVars, depthVars, stepVars, outVars, cliVars,
                 laterVars>>

FilterFeeds ==
  /\ ~selCalled
  /\ selOut' = filter_feeds(selMode, selFeeds, selMeta)
  /\ selCalled' = TRUE
  /\ UNCHANGED <<selMode, selMeta, selFeeds, crawlVars, rateVars, depthVars, stepVars, outVars,
                 cliVars, laterVars>>

InitSelect ==
  /\ InitNoCrawl
  /\ InitRateVars
  /\ InitDepthVars
  /\ InitStepVars
  /\ InitOutVars
  /\ InitSelVars
  /\ InitCliVars
  /\ InitLaterVars

NextSelect ==
  \/ \E select \in Modes, reason \in Reasons, S \in SUBSET Feeds :
       \E feeds \in [S -> Liveness] : ProbeAnswer(select, reason, feeds)
  \/ FilterFeeds

SpecSelect == InitSelect /\ [][NextSelect]_vars

\* ----------------------------------------------- the command line, running
\* One run of collect-urls (one command is run, once).
CollectUrls(store, include, exclude) ==
  /\ ~cuRan
  /\ exRes = NoOutcome
  /\ cuStore' = store
  /\ cuInclude' = include
  /\ cuExclude' = exclude
  /\ cuOut' = collect_urls(store, include, exclude)
  /\ cuRan' = TRUE
  /\ UNCHANGED <<exArgs, exRes, crawlVars, rateVars, depthVars, stepVars, outVars, selVars,
                 laterVars>>

\* One run of export.
Export(topic, help, input) ==
  /\ ~cuRan
  /\ exRes = NoOutcome
  /\ exArgs' = [topic |-> topic, help |-> help, input |-> input]
  /\ exRes' = export(topic, help, input)
  /\ UNCHANGED <<cuStore, cuInclude, cuExclude, cuOut, cuRan, crawlVars, rateVars, depthVars,
                 stepVars, outVars, selVars,
                 laterVars>>

InitCli ==
  /\ InitNoCrawl
  /\ InitRateVars
  /\ InitDepthVars
  /\ InitStepVars
  /\ InitUnitVars

NextCli ==
  \/ \E store \in Stores, include \in FilterLists, exclude \in ExcludeLists :
       CollectUrls(store, include, exclude)
  \/ \E topic \in Topics, help \in BOOLEAN, input \in BOOLEAN : Export(topic, help, input)

SpecCli == InitCli /\ [][NextCli]_vars

\* ---------------------------------------------- the request filter, running
\* What the unit models below leave alone.
restOfUnits == <<crawlVars, rateVars, depthVars, stepVars, outVars, selVars, cliVars>>

\* One dispatch of a request through RequestFilterDownloaderMiddleware.
FilterRequest(request, tests) ==
  /\ ~rfRes.called
  /\ rfArgs' = [request |-> request, tests |-> tests]
  /\ rfRes' = filter_process_request(request, tests)
  /\ UNCHANGED <<restOfUnits, probeVars, argVars, passVars, dispVars>>

InitUnits ==
  /\ InitNoCrawl
  /\ InitRateVars
  /\ InitDepthVars
  /\ InitStepVars
  /\ InitUnitVars

NextFilter ==
  \E no_filter \in BOOLEAN, ignore \in BOOLEAN, proceed \in BOOLEAN, tests \in TestSets :
    FilterRequest([no_filter |-> no_filter, if_ignore |-> ignore, if_proceed |-> proceed], tests)

SpecFilter == InitUnits /\ [][NextFilter]_vars
\* ----------------------------------------------------- SpecProbe: one probe
\* A request reaches the probing middleware; the service answers each of its
\* downloads in one of the ways a download can end.
ProbeRequestIn(probe, try, fetch, enable, doc, select, head, inc, depth) ==
  /\ ~pbRes.called
  /\ pbArgs' = ProbeArgs(probe, try, fetch, enable, doc, select, head, inc, depth)
  /\ pbRes' = probe_process_request(pbArgs')
  /\ UNCHANGED <<restOfUnits, filtVars, argVars, passVars, dispVars>>

\* A request that is not a ProbeRequest passes through.
NotProbe ==
  ProbeRequestIn(FALSE, <<>>, [f \in {} |-> "failed"], FALSE, [ok |-> TRUE, id |-> NoId, results |-> <<>>],
        "all", [f \in ProbeIds |-> "rss"], 0, 1)

ProbeRequests ==
  \E n \in 0..Len(Candidates), enable \in BOOLEAN, doc \in SearchDocs, select \in STATE_SELECT,
     inc \in 0..MaxIncDepth, depth \in 1..MaxProbeDepth, head \in HeadAnswers :
    \E fetch \in [{Candidates[i] : i \in 1..n} -> FetchOutcomes] :
      ProbeRequestIn(TRUE, SubSeq(Candidates, 1, n), fetch, enable, doc, select, head, inc, depth)

NextProbe == NotProbe \/ ProbeRequests

SpecProbe == InitUnits /\ [][NextProbe]_vars

\* ------------------------------------------- SpecArgs: the logging bootstrap
\* The package is imported with some command line.
ConfigLogging(program, custom, options) ==
  /\ ~lgRes.called
  /\ lgArgs' = [program |-> program, custom |-> custom, options |-> options]
  /\ lgRes' = _config_logging(program, custom, options)
  /\ UNCHANGED <<restOfUnits, filtVars, probeVars, passVars, dispVars>>

NextArgs ==
  \E program \in Programs, custom \in BOOLEAN, n \in 0..MaxArgs :
    \E options \in [1..n -> Options] : ConfigLogging(program, custom, options)

SpecArgs == InitUnits /\ [][NextArgs]_vars

\* ------------------- SpecDispatch: a request and the stages that re-issue it
\* The spider yields a request: the engine schedules it.
Schedule(request) ==
  /\ dq.phase = "none"
  /\ dq' = [NoDispatch EXCEPT !.phase = "scheduled", !.request = request]
  /\ UNCHANGED <<restOfUnits, filtVars, probeVars, argVars, passVars>>

\* The engine dispatches the request through process_request of the request
\* filter and of the authorization middleware.  A stage that returns a request
\* ends the dispatch: the engine schedules what it returned.  `replacement` is
\* the request a test returns, if one does.  dq.filter counts the replacements
\* along the chain; dq.auth counts the copies made of the request that is
\* scheduled now (a replacement is a new request, a copy is the request it
\* was copied from).
Dispatch(tests, replacement) ==
  /\ dq.phase = "scheduled"
  /\ dq.dispatches < MaxDispatches
  /\ LET filtered == filter_process_request(dq.request, tests)
         authed == auth_process_request(dq.request)
         here == [dq EXCEPT !.dispatches = @ + 1, !.ran = filtered.ran]
     IN dq' = IF filtered.out = "IgnoreRequest"
                THEN [here EXCEPT !.phase = "dropped", !.last = "IgnoreRequest"]
              ELSE IF filtered.out = "Request"
                THEN [here EXCEPT !.request = [replacement EXCEPT !.no_filter = filtered.marked],
                                  !.filter = @ + 1,
                                  !.auth = 0, !.last = "filter"]
              ELSE IF authed.out = "Request"
                THEN [here EXCEPT !.request = authed.request, !.auth = @ + 1, !.last = "auth"]
              ELSE [here EXCEPT !.phase = "downloader", !.last = "downloader"]
  /\ UNCHANGED <<restOfUnits, filtVars, probeVars, argVars, passVars>>

\* The tests of a dispatch: filter_domains, alone or after one other test.
DispatchTests ==
  {T \in TestSets : \A t \in T : t.prio \in {100, 300}}

Dispatching ==
  \E tests \in DispatchTests, replacement \in DispatchRequests : Dispatch(tests, replacement)

NextDispatch == (\E request \in DispatchRequests : Schedule(request)) \/ Dispatching

SpecDispatch == InitUnits /\ [][NextDispatch]_vars

\* The engine dispatches every request it has scheduled.
SpecDispatchFair == SpecDispatch /\ WF_vars(Dispatching)

\* ------------------- SpecPass: the source-page fetch middleware on its own
\* What a spider callback or a middleware before this one may hand over: item
\* records, marked or not, and other records, as an iterator or as a list.
Results ==
  UNION {[1..n -> {Out(1, "item", "u1"), Out(2, "other", ""),
                   [Out(3, "item", "u2") EXCEPT !.source_fetched = TRUE]}] :
           n \in 0..MaxRecords}

ProcessSpiderOutput(scrape, result, again) ==
  /\ ~fsRes.called
  /\ fsArgs' = [scrape |-> scrape, again |-> again, result |-> result]
  /\ fsRes' = [called |-> TRUE,
               out |-> fetch_process_spider_output(fetch_init(scrape), result, again)]
  /\ UNCHANGED <<restOfUnits, filtVars, probeVars, argVars, dispVars>>

NextPass ==
  \E scrape \in BOOLEAN, result \in Results, again \in BOOLEAN :
    ProcessSpiderOutput(scrape, result, again)

SpecPass == InitUnits /\ [][NextPass]_vars


\* ------------------------------------------------------------------- claims
\* What a flush of queue `ins` must leave: per key, the payload of the last
\* instruction for it if that is an add, nothing if it is a remove, and what
\* was there before if the queue does not name the key.
LastFor(ins, k) ==
  LET idx == {i \in 1..Len(ins) : ins[i].key = k}
  IN IF idx = {} THEN 0 ELSE CHOOSE i \in idx : \A j \in idx : j <= i

Settled(before, ins, after) ==
  \A k \in Feeds :
    LET i == LastFor(ins, k)
    IN IF i = 0
         THEN /\ (k \in DOMAIN after) = (k \in DOMAIN before)
              /\ k \in DOMAIN before => after[k] = before[k]
       ELSE IF ins[i].action = "add"
         THEN k \in DOMAIN after /\ after[k] = ins[i].data
       ELSE k \notin DOMAIN after

FlushStep == instructions # <<>> /\ instructions' = <<>>

Choices == {"c", "s", "e", ""}

C2_ResumeMatrix ==
  /\ prompting.active =>
       /\ DOMAIN prompting.requests # {}
       /\ prompting.feed # prompting.resume_feed
       /\ \A i \in 1..Len(prompting.inputs) : prompting.inputs[i] \notin Choices
  /\ dec.n > 0 =>
       /\ dec.empty => dec.outcome = "start" /\ dec.inputs = <<>>
       /\ (~dec.empty /\ dec.same) =>
            dec.outcome = "continue" /\ dec.inputs = <<>> /\ dec.handed = dec.loaded
       /\ (~dec.empty /\ ~dec.same) =>
            /\ dec.inputs # <<>>
            /\ \A i \in 1..(Len(dec.inputs) - 1) : dec.inputs[i] \notin Choices
            /\ LET last == dec.inputs[Len(dec.inputs)]
               IN /\ last \in Choices
                  /\ (last \in {"c", ""}) = (dec.outcome = "continue")
                  /\ (last = "s") = (dec.outcome = "start")
                  /\ (last = "e") = (dec.outcome = "exit")
            /\ dec.outcome = "continue" => dec.handed = dec.loaded
       /\ \A rs \in resp : rs.req.cb = "resume_crawl" => rs.requests = dec.handed

C2_Witness ==
  /\ dec.n = 1 /\ ~dec.empty /\ ~dec.same
  /\ dec.inputs = <<"n", "">>
  /\ dec.outcome = "continue"
  /\ \E rs \in resp : rs.req.cb = "resume_crawl" /\ rs.requests = dec.loaded

C4_ExitEmitsNothing == exited => ~afterExit

C6_PaginationTerminates ==
  /\ finished = {f \in Feeds : upCont[f] = 0}
  /\ \A r \in sched :
       /\ (r.cls = "Request" /\ r.meta.pkey # NoKey) => upCont[r.meta.pkey] # 0
       /\ (r.cls = "FinishedRequest" /\ r.meta.pkey # NoKey) => r.meta.persist = "remove"
  /\ \A rs \in resp : rs.req.cls = "Request" => upCont[rs.req.url.feed] # 0
  /\ \A f \in Feeds :
       upCont[f] > 0 =>
         /\ lastSched[f].cls = "Request"
         /\ lastSched[f].cb = "parse_feed"
         /\ lastSched[f].url = get_streams_url(StreamId(f), upCont[f])
         /\ lastSched[f].meta.reason = "continuation"
         /\ lastSched[f].meta.persist = "add"

C6_Witness ==
  \E f \in Feeds :
    /\ upCont[f] = 0 /\ f \in finished
    /\ lastSched[f].url.cont > 0
    /\ \E g \in Feeds : upCont[g] > 0 /\ lastSched[g] \in sched

\* C7: from the initialisation of the middleware until shutdown is
\* signalled, the durability thread stays alive (waiting for its next
\* period).
C7_ThreadAliveUntilShutdown == (initialized /\ ~closing) => workerPc = "wait"

\* C8: the body of _close runs for the first close signal only, and when
\* that _close has returned the queue is empty and every instruction that was
\* enqueued has been applied to the archive file (looked at when the thread is
\* not in the middle of a flush of its own).
C8_CloseRunsOnce ==
  /\ closeRuns <= 1
  /\ (mPc = "returned" /\ writers = 0 /\ workerPc \in {"wait", "done"}) =>
       /\ instructions = <<>>
       /\ archiveFile = expected

\* C9: for a 429 response to a request against cloud.feedly.com that carries
\* Retry-After: N, process_response pauses the engine, waits N x 1.2 seconds,
\* unpauses the engine, in that order, and returns a copy of the request with
\* the same URL and method.
C9_RateLimitBackoff ==
  (/\ rlHandled.active
   /\ rlHandled.response.status = 429
   /\ rlHandled.request.url.netloc = "cloud.feedly.com"
   /\ rlHandled.response.retry_after.present
   /\ ~rlHandled.interrupted) =>
    /\ rlResult.calls = <<Call("pause", 0),
                          Call("wait", rlHandled.response.retry_after.secs * 12),
                          Call("unpause", 0)>>
    /\ rlResult.result = "request"
    /\ rlResult.request.url = rlHandled.request.url
    /\ rlResult.request.method = rlHandled.request.method

\* C10: of a spider result, process_spider_output returns every item and
\* every request without the tag as it is; a request tagged inc_depth = k > 1
\* is returned with the tag k - 1, its depth untouched, without going to the
\* stock depth check; a request tagged 1 goes to the stock check, which
\* stamps its depth and drops it exactly when the depth exceeds a non-zero
\* ceiling.  So a request first tagged 3 has the tag 1 and no check behind it
\* after two passes, and one check after three.
C10_DepthAccounting ==
  /\ (dCalls > 0 /\ dStage = "idle") =>
       /\ \A i \in 1..Len(dIn) :
            LET r == dIn[i]
                back == {o \in Ids(dOut) : o = r.id}
                checked == r.id \in Ids(dSuper)
            IN /\ (~r.isRequest \/ ~r.tagged) =>
                    ~checked /\ \E j \in 1..Len(dOut) : dOut[j] = r
               /\ (r.isRequest /\ r.tagged /\ r.inc_depth > 1) =>
                    /\ ~checked
                    /\ \E j \in 1..Len(dOut) :
                         dOut[j] = [r EXCEPT !.inc_depth = r.inc_depth - 1]
               /\ (r.isRequest /\ r.tagged /\ r.inc_depth = 1) =>
                    /\ checked
                    /\ (back # {}) =
                         ~(dMaxdepth # 0 /\ meta_depth(dResp) + 1 > dMaxdepth)
                    /\ \A j \in 1..Len(dOut) :
                         dOut[j].id = r.id =>
                           dOut[j] = [r EXCEPT !.has_depth = TRUE,
                                               !.depth = meta_depth(dResp) + 1]
       /\ Len(dOut) <= Len(dIn)
       /\ \A j, k \in 1..Len(dOut) : dOut[j].id = dOut[k].id => j = k
  /\ \A i \in 1..MaxOut :
       /\ (dTrail[i].first > 1 /\ dTrail[i].passes < dTrail[i].first) =>
            dTrail[i].checks = 0
       /\ (dStage = "idle" /\ dTrail[i].first = 3 /\ dTrail[i].passes = 2) =>
            \E j \in 1..Len(dOut) : dOut[j].id = i /\ dOut[j].inc_depth = 1
       /\ (dTrail[i].first = 3 /\ dTrail[i].passes = 3) => dTrail[i].checks = 1

C10_Witness ==
  /\ dStage = "idle"
  /\ \E i \in 1..MaxOut :
       /\ dTrail[i].first = 3 /\ dTrail[i].passes = 3 /\ dTrail[i].checks = 1
       /\ \E j \in 1..Len(dOut) :
            dOut[j].id = i /\ dOut[j].has_depth /\ dOut[j].inc_depth = 1
  /\ dMaxdepth # 0

\* The URLs crawled_items.txt holds, as init would load them.
SeenUrls == crawled_init(NewCrawled, oFile).crawled_items

\* C11: the de-duplication middleware loads the seen URLs from
\* crawled_items.txt on first use (an absent file is an empty set); of the
\* result it is given, it suppresses every record whose item URL is in that
\* set, and passes every other record and every output without an item
\* unchanged.
C11_SeenRecordsSuppressed ==
  ciCalled =>
    ciOut = SelectSeq(ciIn, LAMBDA data : data.kind # "item" \/ data.url \notin SeenUrls)

C14_MalformedPageEndsPagination ==
  (pf.called /\ ~pf.body.json) =>
    /\ pf.raised = "none"
    /\ \A i \in 1..Len(pf.yielded) : pf.yielded[i].kind # "item"
    /\ pf.next_page

\* C12: for a reason other than user_specified, filter_feeds schedules a feed
\* with the priority the table gives its liveness under FEED_STATE_SELECT
\* (dead+: dead 1, alive -128, unknown 1; all: 1 whatever the liveness) and
\* skips it exactly when that priority is 0; for user_specified every feed is
\* scheduled, whatever the mode and the liveness.
C12_FeedSelection ==
  selCalled =>
    LET Table(select, dead) ==
          CASE select = "dead+" -> (IF dead = "False" THEN -128 ELSE 1)
            [] select = "all" -> 1
            [] select = "alive+" -> (IF dead = "True" THEN -128 ELSE 1)
            [] select = "dead" -> (IF dead = "False" THEN 0 ELSE 1)
            [] select = "alive" -> (IF dead = "True" THEN 0 ELSE 1)
        Times(f) == Cardinality({i \in 1..Len(selOut) : selOut[i].feed = f})
    IN /\ \A i \in 1..Len(selOut) : selOut[i].feed \in DOMAIN selFeeds /\ selOut[i].initial
       /\ \A f \in DOMAIN selFeeds :
            IF selMeta = "user_specified"
              THEN Times(f) = 1
              ELSE /\ Times(f) = (IF Table(selMode, selFeeds[f]) = 0 THEN 0 ELSE 1)
                   /\ \A i \in 1..Len(selOut) :
                        selOut[i].feed = f =>
                          selOut[i].explicit /\ selOut[i].priority = Table(selMode, selFeeds[f])

\* Under dead+ a living feed was scheduled at -128 next to a dead one at 1.
C12_Witness ==
  /\ selCalled
  /\ selMeta # "user_specified"
  /\ selMode = "dead+"
  /\ \E i, j \in 1..Len(selOut) :
       /\ selFeeds[selOut[i].feed] = "False" /\ selOut[i].priority = -128
       /\ selFeeds[selOut[j].feed] = "True" /\ selOut[j].priority = 1

\* C15: resume_crawl, given no pending request by the persistence middleware,
\* emits exactly one request, a probe of the configured FEED tagged
\* reason=user_specified and depth=1; given pending requests it emits exactly
\* one request per archived entry, the entry reconstructed, and no probe.
C15_ResumeCrawl ==
  [][\A rs \in resp :
       (rs.req.cb = "resume_crawl" /\ rs \notin resp') =>
         LET emitted == sched' \ sched
             keys == DOMAIN rs.requests
         IN IF keys = {}
              THEN /\ Cardinality(emitted) = 1
                   /\ \A r \in emitted :
                        /\ r.cls = "ProbeRequest"
                        /\ r.url.feed = cfgFeed
                        /\ r.meta.reason = "user_specified"
                        /\ r.meta.depth = 1
            ELSE /\ Cardinality(emitted) = Cardinality(keys)
                 /\ \A k \in keys : rs.requests[k].req \in emitted
                 /\ \A r \in emitted : r.cls # "ProbeRequest"]_vars

\* resume_crawl has replayed two archived page requests.
C15_Witness ==
  /\ dec.n = 1
  /\ Cardinality(DOMAIN dec.handed) = 2
  /\ \A k \in DOMAIN dec.handed : dec.handed[k].req \in sched

\* resume_crawl has probed the configured feed.
C15_WitnessProbe ==
  /\ dec.n = 1
  /\ DOMAIN dec.handed = {}
  /\ \E r \in sched : r.cls = "ProbeRequest" /\ r.url.feed = cfgFeed /\ r.meta.depth = 1

\* C16: collect-urls prints exactly the URLs matching every criterion of some
\* --include filter, minus the URLs matching every criterion of some
\* --exclude filter; with neither option given the include filters are
\* tag=img and tag=source.
C16_CollectUrls ==
  cuRan =>
    LET MatchesAll(u, f) ==
          \E occ \in cuStore[u] :
            \A i \in 1..Len(f) : Satisfies(occ, f[i].topic, f[i].value)
        MatchesAny(u, filters) == \E i \in 1..Len(filters) : MatchesAll(u, filters[i])
        include == IF cuInclude = <<>> /\ cuExclude = <<>>
                     THEN <<<<Criterion("tag", "img")>>, <<Criterion("tag", "source")>>>>
                     ELSE cuInclude
    IN cuOut = {u \in DOMAIN cuStore : MatchesAny(u, include) /\ ~MatchesAny(u, cuExclude)}

\* C17: export with a topic that resolves to no exporter, and is not the
\* help sentinel, prints the error that no exporter was found and exits with
\* a non-zero status, and no exporter is invoked (the other arguments being
\* valid).
C17_UnknownTopicRejected ==
  (exRes # NoOutcome /\ exArgs.topic \notin Exporters \cup {"help"} /\ ~exArgs.help
     /\ exArgs.input) =>
    /\ exRes.message = "No exporter found for topic"
    /\ exRes.status # 0
    /\ exRes.invoked = "none"

\* C18: the queue is safe under every interleaving of an append by the event
\* loop with the steps of a flush: every instruction enqueued is applied to
\* the archive by some flush, in enqueue order, and none is discarded.  Here
\* for the flush of the thread alone (no close signal yet): once it has
\* cleared the queue, what it is writing, with what is queued since, is the
\* archive with every instruction enqueued applied in order.
C18_QueueSafe ==
  (~closing /\ workerPc \in {"open", "write", "info", "done"}) =>
    ApplyAll(wArch, instructions) = expected

\* C19: once the close signal has set the closing event the thread makes at
\* most one more flush and ends, so that after shutdown (_close has returned)
\* only the final flush of the calling thread has written the archive: the
\* thread is not running any more.
C19_ThreadStops == mPc = "returned" => workerPc = "done"

\* C20: the resume decision (load the archive, compare the feeds, prompt) is
\* executed at most once per crawl: replays by eager_process are no-ops and
\* no later dispatch of a request carrying the same metadata runs it again.
C20_DecisionOnce == dec.n <= 1

C22_RequestFilter ==
  rfRes.called =>
    LET tests == rfArgs.tests
        request == rfArgs.request
        ran == rfRes.ran
        Test(n) == CHOOSE t \in tests : t.name = n
        n == Len(ran)
        last == IF n = 0 THEN "truthy" ELSE Test(ran[n]).result
    IN /\ \A i \in 1..n : \E t \in tests : t.name = ran[i]
       /\ \A i, j \in 1..n : i < j => Test(ran[i]).prio < Test(ran[j]).prio
       /\ \A i \in 1..n : \A t \in tests : t.prio < Test(ran[i]).prio => \E j \in 1..i : ran[j] = t.name
       /\ \A i \in 1..(n - 1) : Test(ran[i]).result = "truthy"
       /\ ~(rfRes.if_ignore /\ rfRes.if_proceed)
       /\ IF request.no_filter
            THEN n = 0 /\ rfRes.out = "None" /\ ~rfRes.if_ignore
          ELSE IF last = "falsy"
            THEN rfRes.out = "IgnoreRequest" /\ rfRes.if_ignore = request.if_ignore
                 /\ ~rfRes.if_proceed
          ELSE IF last = "request"
            THEN rfRes.out = "Request" /\ rfRes.marked /\ ~rfRes.if_ignore /\ ~rfRes.if_proceed
          ELSE /\ n = Cardinality(tests)
               /\ rfRes.out = "None"
               /\ rfRes.if_proceed = request.if_proceed
               /\ ~rfRes.if_ignore

\* A test of lower priority number ran first and passed, the next one
\* returned a replacement, the last one did not run.
C22_Witness ==
  /\ rfRes.called
  /\ Len(rfRes.ran) = 2
  /\ Cardinality(rfArgs.tests) = 3
  /\ rfRes.out = "Request"
  /\ rfArgs.request.if_proceed
  /\ ~rfRes.if_proceed

\* C23: probing tolerates failing candidate fetches: whatever subset of the
\* candidate fetches fails, the ProbeRequest completes with a synthesized
\* response (its own URL is never fetched), valid_feeds and feed_info are
\* written and try_feeds is removed; a candidate is in valid_feeds exactly
\* when its own fetch succeeded with a non-empty `items`.
C23_ProbeTolerant ==
  (pbRes.called /\ pbArgs.probe) =>
    /\ pbRes.out = "Response"
    /\ pbRes.wrote
    /\ ~pbRes.try_feeds
    /\ \A u \in pbRes.fetched : u.ep \in {"streams", "search", "HEAD"}
    /\ \A i \in 1..Len(pbArgs.try_feeds) :
         LET f == pbArgs.try_feeds[i]
         IN (f \in DOMAIN pbRes.valid_feeds) <=> (pbArgs.fetch[f] = "items")

\* C24: one search query is issued exactly when no candidate is valid and
\* ENABLE_SEARCH is on; when the search answers with results, the probe
\* completes with every result's feed id in valid_feeds and feed_info mapping
\* each id to its own {url, title}.  (Stated for FEED_STATE_SELECT = all, where
\* no liveness pass follows the search.)
C24_SearchFallback ==
  (pbRes.called /\ pbArgs.probe /\ pbArgs.select = "all") =>
    LET a == pbArgs
        novalid == \A i \in 1..Len(a.try_feeds) : a.fetch[a.try_feeds[i]] # "items"
        searched == ProbeUrl("search", a.query) \in pbRes.fetched
    IN /\ searched <=> (novalid /\ a.enable_search)
       /\ (searched /\ a.search.ok /\ a.search.results # <<>>) =>
            /\ pbRes.out = "Response"
            /\ \A i \in 1..Len(a.search.results) :
                 LET r == a.search.results[i]
                 IN /\ r \in DOMAIN pbRes.valid_feeds
                    /\ r \in DOMAIN pbRes.feed_info
                    /\ pbRes.feed_info[r].url = get_feed_uri(r)

\* C25: with FEED_STATE_SELECT one of dead, dead+, alive, alive+ every valid
\* feed gets a HEAD check and is dead when the check fails outright (with or
\* without a response), answers with a status outside {200, 206, 405} or with
\* content that is not RSS, and alive otherwise; the pass completes whatever
\* checks fail.  With `all` no HEAD request is made and liveness stays unset.
\* (Stated for the probes whose candidate and search stage did not raise.)
C25_LivenessPass ==
  (pbRes.called /\ pbArgs.probe /\ pbRes.out \notin {"Failure", "KeyError"}) =>
    /\ pbRes.out = "Response"
    /\ \A f \in DOMAIN pbRes.valid_feeds :
         IF test_status(pbArgs.select)
           THEN /\ ProbeUrl("HEAD", get_feed_uri(f)) \in pbRes.fetched
                /\ pbRes.valid_feeds[f] = IF pbArgs.head[f] = "rss" THEN "alive" ELSE "dead"
           ELSE pbRes.valid_feeds[f] = Unset
    /\ ~test_status(pbArgs.select) => \A u \in pbRes.fetched : u.ep # "HEAD"

\* C26: the probing middleware decrements the depth of the ProbeRequest by
\* one exactly when the request is tagged inc_depth = 1; without the tag, or
\* with inc_depth > 1, the depth is unchanged.
C26_DepthCompensation ==
  (pbRes.called /\ pbArgs.probe /\ pbRes.out = "Response") =>
    pbRes.depth = IF pbArgs.inc_depth = 1 THEN pbArgs.depth - 1 ELSE pbArgs.depth

\* C30: no flush between the initialisation of the persistence middleware
\* and the resume decision changes the crawling identity in info.json: until
\* _continue has read it, info.json is what the previous run left.
C30_InfoKeptUntilDecision ==
  [][(initialized /\ dec.n = 0 /\ ~prompting.active) => infoFile' = infoFile]_vars

\* C29: run as the scrapy command with custom logging on, the bootstrap
\* leaves in sys.argv none of the logging arguments it consumed (-s/--settings
\* key=value for a logging key, --logfile PATH, -L/--loglevel LEVEL), keeps
\* every other argument in its original order, and appends --nolog.
C29_ArgvCleaned ==
  (lgRes.called /\ lgArgs.custom /\ lgArgs.program = "scrapy") =>
    LET Consumed(o) ==
          \/ o.flag \in {"--logfile", "-L", "--loglevel"}
          \/ o.flag \in {"-s", "--settings"} /\ split(o.value)[1] \in DOMAIN settings_default
        kept == SelectSeq(lgArgs.options, LAMBDA o : ~Consumed(o))
    IN /\ ~lgRes.raised
       /\ lgRes.argv = <<Arg("scrapy")>> \o Flatten(kept) \o <<Arg("--nolog")>>

\* C27: with SCRAPE_SOURCE_PAGE off the source-page fetch middleware yields
\* every element of the result once, unchanged and in order, and creates no
\* source request, whether the result is an iterator or can be iterated again.
C27_DisabledPassesThrough ==
  (fsRes.called /\ ~fsArgs.scrape) =>
    /\ fsRes.out = fsArgs.result
    /\ \A i \in 1..Len(fsRes.out) : fsRes.out[i].kind # "source"

C31_ExitLeavesResumable ==
  (exited /\ mPc = "returned" /\ writers = 0 /\ workerPc \in {"wait", "done"}) =>
    /\ \A i \in 1..Len(instructions) : instructions[i].action # "remove"
    /\ archiveFile = expected
    /\ load_info = feed
    /\ feed # cfgFeed

\* C32: re-issue by a downloader stage ends.  What the authorization
\* middleware returns carries the Authorization header, and a request that
\* carries it is not re-issued by that stage; what the request filter returns
\* is marked no_filter, and a request so marked runs no test; so no request is
\* re-issued by the same stage more than once, a request is dispatched a
\* bounded number of times, and every scheduled request reaches the downloader
\* or is dropped.
C32_ReissueEnds ==
  /\ [](/\ dq.filter <= 1
        /\ dq.auth <= 1
        /\ dq.dispatches <= 4
        /\ dq.last = "filter" => dq.request.no_filter
        /\ dq.last = "auth" => dq.request.Authorization = <<"OAuth ", dq.request.auth>>)
  /\ [][dq.dispatches' = dq.dispatches + 1 =>
          /\ dq.request.Authorization # <<>> => dq.last' # "auth"
          /\ dq.request.no_filter => (dq.ran' = <<>> /\ dq.last' \in {"auth", "downloader"})
          /\ dq.last' = "downloader" => dq.request' = dq.request]_vars
  /\ (dq.phase = "scheduled") ~> (dq.phase \in {"downloader", "dropped"})

\* The authorization middleware copied the request, a test replaced the
\* copy, the middleware copied the replacement, and that copy went to the
\* downloader on the fourth dispatch.
C32_Witness ==
  /\ dq.phase = "downloader"
  /\ dq.filter = 1
  /\ dq.auth = 1
  /\ dq.dispatches = 4
  /\ dq.request.no_filter
  /\ dq.request.Authorization = <<"OAuth ", "token">>
====
